---- MODULE Spec2Model ----
(***************************************************************************)
(* Model of the kami2 puzzle core: the triangular GameGrid with its        *)
(* incrementally maintained union-find, and the GraphSolver that searches  *)
(* the region-adjacency graph with iterative deepening.                    *)
(***************************************************************************)
EXTENDS Integers, Sequences, FiniteSets, TLC

VARIABLES gameGrid, call, solver, result, walk, store

vars == <<gameGrid, call, solver, result, walk, store>>

(***************************************************************************)
(* Bounds of the model.                                                    *)
(***************************************************************************)
\* largest vside_rows of a board (rows = 2 * vside_rows + 1)
MaxVsideRows == 1
\* largest number of columns of a board
MaxCols == 5
\* largest number of cells (rows * cols) of a board
MaxCells == 6
\* largest colorCount of a board
NumColors == 4
\* largest of the small maxDepthLimit arguments given to solve
MaxDepthArg == 2
\* largest vside_rows and number of columns of the all-zero boards whose
\* adjacency is examined
MaxMeshVsideRows == 2
MaxMeshCols == 5
\* largest number of floodFill calls made on a grid and its clone after clone()
MaxFillsAfterClone == 1

\* addColor is tried on palettes of fewer colors than this
MaxPaletteLen == 2

\* solvePuzzle is tried while fewer solve tasks than this wait to run
MaxPendingSolves == 2
\* the maxDepthLimit the store passes to solve
StoreMaxDepth == 15
\* the board the store initializes: VSIDE_ROWS and COLS
VSIDE_ROWS == 14
COLS == 10

(***************************************************************************)
(* Generic helpers for JS arrays, Sets and Maps (insertion ordered).       *)
(***************************************************************************)
Max(a, b) == IF a >= b THEN a ELSE b

Min(a, b) == IF a <= b THEN a ELSE b

\* left fold of Op over the sequence s, as a for..of loop over an array
FoldLeft(Op(_, _), acc, s) ==
  LET RECURSIVE Span(_)
      \* the fold of s[lo], ..., s[hi] from a; halving keeps the nesting of
      \* the evaluation logarithmic in the length of s
      Span(st) ==
        IF st.lo > st.hi THEN st.a
        ELSE IF st.lo = st.hi THEN Op(st.a, s[st.lo])
        ELSE LET mid == (st.lo + st.hi) \div 2
                 left == Span([a |-> st.a, lo |-> st.lo, hi |-> mid])
             IN Span([a |-> left, lo |-> mid + 1, hi |-> st.hi])
  IN Span([a |-> acc, lo |-> 1, hi |-> Len(s)])

\* the elements of a sequence
Range(s) == {s[i] : i \in 1..Len(s)}

\* Set.add on an insertion-ordered Set kept as a sequence
SetAdd(s, x) == IF x \in Range(s) THEN s ELSE Append(s, x)

\* Set.delete on an insertion-ordered Set kept as a sequence
SetDelete(s, x) == SelectSeq(s, LAMBDA y : y # x)

(***************************************************************************)
(* UnionFind (./UnionFind, imported by GameGrid.ts): parent array and a    *)
(* live component count.  find returns the canonical representative,       *)
(* union merges two components and decrements count once per merge.        *)
(***************************************************************************)
NewUnionFind(n) == [parent |-> [i \in 0..(n - 1) |-> i], count |-> n]

find(uf, i) == uf.parent[i]

union(uf, i, j) ==
  LET ri == find(uf, i)
      rj == find(uf, j)
      root == Min(ri, rj)
      moved == {k \in DOMAIN uf.parent : uf.parent[k] \in {ri, rj}}
  IN IF ri = rj THEN uf
     ELSE [parent |-> [k \in moved |-> root] @@ uf.parent,
           count |-> uf.count - 1]

(***************************************************************************)
(* GameGrid                                                                *)
(***************************************************************************)
\* length of a JS array kept as a function on 0..(n-1)
ArrLen(a) == Cardinality(DOMAIN a)

\* isRight: the parity of r + c tells which way the triangle points
isRight_byRow(r, c) == r % 2 = 0

isRight(r, c) == (r + c) % 2 = 0

\* getNeighbors(r, c): the up, down and one horizontal neighbour, in order
getNeighbors_parityFlipped(gg, r, c) ==
  LET up == IF r > 0 THEN <<[r |-> r - 1, c |-> c]>> ELSE <<>>
      down == IF r < gg.rows - 1 THEN <<[r |-> r + 1, c |-> c]>> ELSE <<>>
      flipped == (r + c) % 2 = 1
      side == IF flipped /\ c > 0 THEN <<[r |-> r, c |-> c - 1]>>
              ELSE IF ~flipped /\ c < gg.cols - 1 THEN <<[r |-> r, c |-> c + 1]>>
              ELSE <<>>
  IN up \o down \o side

getNeighbors(gg, r, c) ==
  LET up == IF r > 0 THEN <<[r |-> r - 1, c |-> c]>> ELSE <<>>
      down == IF r < gg.rows - 1 THEN <<[r |-> r + 1, c |-> c]>> ELSE <<>>
      side == IF isRight(r, c) /\ c > 0 THEN <<[r |-> r, c |-> c - 1]>>
              ELSE IF ~isRight(r, c) /\ c < gg.cols - 1 THEN <<[r |-> r, c |-> c + 1]>>
              ELSE <<>>
  IN up \o down \o side

\* grid[c]?.[r] is defined
HasCell(grid, r, c) == c \in DOMAIN grid /\ r \in DOMAIN grid[c]

\* getColorIndex(r, c): grid[c]?.[r] ?? 0
getColorIndex_transposed(gg, r, c) == IF HasCell(gg.grid, c, r) THEN gg.grid[r][c] ELSE 0

getColorIndex(gg, r, c) == IF HasCell(gg.grid, r, c) THEN gg.grid[c][r] ELSE 0

\* the bounds test written out in buildUnionFind and floodFill
InBounds(gg, n) == n.r >= 0 /\ n.r < gg.rows /\ n.c >= 0 /\ n.c < gg.cols

\* all cells in the scan order of buildUnionFind (r outer, c inner)
CellsRowMajor(rows, cols) ==
  [k \in 1..(rows * cols) |-> [r |-> (k - 1) \div cols, c |-> (k - 1) % cols]]

\* buildUnionFind(): full rebuild of the union-find from the color array
buildUnionFind_sameColumnOnly(gg) ==
  LET grid == gg.grid
      totalCells == gg.rows * gg.cols
      idx(r, c) == r * gg.cols + c
      visit(uf, cell) ==
        FoldLeft(LAMBDA u, n :
                   IF InBounds(gg, n) /\ n.c = cell.c
                      /\ grid[cell.c][cell.r] = grid[n.c][n.r]
                   THEN union(u, idx(cell.r, cell.c), idx(n.r, n.c))
                   ELSE u,
                 uf, getNeighbors(gg, cell.r, cell.c))
  IN FoldLeft(visit, NewUnionFind(totalCells), CellsRowMajor(gg.rows, gg.cols))

buildUnionFind(gg) ==
  LET grid == gg.grid
      totalCells == gg.rows * gg.cols
      idx(r, c) == r * gg.cols + c
      malformed == \/ ArrLen(grid) = 0
                   \/ ArrLen(grid) < gg.cols
                   \/ ArrLen(grid[0]) = 0
                   \/ ArrLen(grid[0]) < gg.rows
      visit(uf, cell) ==
        IF ~HasCell(grid, cell.r, cell.c) THEN uf
        ELSE FoldLeft(LAMBDA u, n :
                        IF InBounds(gg, n) /\ HasCell(grid, n.r, n.c)
                           /\ grid[cell.c][cell.r] = grid[n.c][n.r]
                        THEN union(u, idx(cell.r, cell.c), idx(n.r, n.c))
                        ELSE u,
                      uf, getNeighbors(gg, cell.r, cell.c))
  IN IF malformed THEN NewUnionFind(totalCells)
     ELSE FoldLeft(visit, NewUnionFind(totalCells), CellsRowMajor(gg.rows, gg.cols))

\* constructor(vside_rows, cols, colorCount, grid)
NewGameGrid(vside_rows, cols, colorCount, grid) ==
  LET base == [vside_rows |-> vside_rows,
               rows |-> 2 * vside_rows + 1,
               cols |-> cols,
               colorCount |-> Max(1, colorCount),
               grid |-> grid]
  IN [vside_rows |-> base.vside_rows, rows |-> base.rows, cols |-> base.cols,
      colorCount |-> base.colorCount, grid |-> base.grid,
      uf |-> buildUnionFind(base)]

\* Array.from({ length: cols }, () => Array.from({ length: rows }, () => 0))
ZeroGrid(rows, cols) == [c \in 0..(cols - 1) |-> [r \in 0..(rows - 1) |-> 0]]

\* [...col]: a new array with the entries of col; fresh tells that it is not
\* the array object col itself
copyColumn_sameArray(col) == [cells |-> col, fresh |-> FALSE]

copyColumn(col) == [cells |-> col, fresh |-> TRUE]

\* clone(): the new GameGrid, and the columns whose array object it shares
\* with this grid
clone(gg) ==
  LET copies == [c \in DOMAIN gg.grid |-> copyColumn(gg.grid[c])]
  IN [grid |-> NewGameGrid(gg.vside_rows, gg.cols, gg.colorCount,
                           [c \in DOMAIN gg.grid |-> copies[c].cells]),
      shared |-> {c \in DOMAIN gg.grid : ~copies[c].fresh}]

\* a write to a column array is seen by every grid that holds that array
\* object: target after source wrote to its columns
WriteThrough(target, source, shared) ==
  [target EXCEPT !.grid = [c \in DOMAIN target.grid |->
                             IF c \in shared THEN source.grid[c] ELSE target.grid[c]]]

\* x >> 1 on a number of at most 31 bits
ShiftRight1(x) == x \div 2

\* toJSON(): the exported snapshot
toJSON_vsideAsRows(gg) ==
  [rows |-> gg.vside_rows, cols |-> gg.cols, colorCount |-> gg.colorCount, grid |-> gg.grid]

toJSON(gg) ==
  [rows |-> gg.rows, cols |-> gg.cols, colorCount |-> gg.colorCount, grid |-> gg.grid]

\* a field of a parsed snapshot is present
HasField(data, f) == f \in DOMAIN data

\* fromJSON(data): data.colors?.length ?? data.colorCount ?? 1
fromJSON_colorCountFirst(data) ==
  LET vside_rows == ShiftRight1(data.rows - 1)
      colorCount == IF HasField(data, "colorCount") THEN data.colorCount
                    ELSE IF HasField(data, "colors") THEN Len(data.colors)
                    ELSE 1
  IN NewGameGrid(vside_rows, data.cols, colorCount, data.grid)

fromJSON(data) ==
  LET vside_rows == ShiftRight1(data.rows - 1)
      colorCount == IF HasField(data, "colors") THEN Len(data.colors)
                    ELSE IF HasField(data, "colorCount") THEN data.colorCount
                    ELSE 1
  IN NewGameGrid(vside_rows, data.cols, colorCount, data.grid)

\* getRegionCount(): the maintained count
getRegionCount(gg) == gg.uf.count

\* g[c][r] = v on an existing column c; an index r the column does not have
\* yet is added to it
SetCell(g, r, c, v) ==
  [g EXCEPT ![c] = [k \in (DOMAIN g[c]) \cup {r} |-> IF k = r THEN v ELSE g[c][k]]]

\* idx(r, c) of floodFill: the union-find element of a cell
idx_colMajor(gg, r, c) == c * gg.rows + r

idx(gg, r, c) == r * gg.cols + c

\* the loop that unions a cell with its neighbours already holding newColorIndex
unionNewColorNeighbors_skipped(gg, g, uf, cell, newColorIndex) == uf

unionNewColorNeighbors(gg, g, uf, cell, newColorIndex) ==
  FoldLeft(LAMBDA u, nb :
             IF InBounds(gg, nb) /\ HasCell(g, nb.r, nb.c)
                /\ g[nb.c][nb.r] = newColorIndex
             THEN union(u, idx(gg, cell.r, cell.c), idx(gg, nb.r, nb.c))
             ELSE u,
           uf, getNeighbors(gg, cell.r, cell.c))

\* floodFill's first loop: the start cell and its neighbours of newColorIndex
unionStartNeighbors_skipped(gg, g, uf, start, newColorIndex) == uf

unionStartNeighbors(gg, g, uf, start, newColorIndex) ==
  unionNewColorNeighbors(gg, g, uf, start, newColorIndex)

\* floodFill's loop body for the neighbour n of the dequeued cell curr
floodVisit_noPush(gg, oldColorIndex, newColorIndex, curr, st, n) ==
  IF n \in st.visited THEN st
  ELSE IF ~InBounds(gg, n) \/ ~HasCell(st.g, n.r, n.c) THEN st
  ELSE IF st.g[n.c][n.r] = oldColorIndex
  THEN LET g2 == SetCell(st.g, n.r, n.c, newColorIndex)
           u2 == union(st.uf, idx(gg, curr.r, curr.c), idx(gg, n.r, n.c))
       IN [g |-> g2,
           uf |-> unionNewColorNeighbors(gg, g2, u2, n, newColorIndex),
           visited |-> st.visited \cup {n},
           queue |-> st.queue]
  ELSE st

floodVisit(gg, oldColorIndex, newColorIndex, curr, st, n) ==
  IF n \in st.visited THEN st
  ELSE IF ~InBounds(gg, n) \/ ~HasCell(st.g, n.r, n.c) THEN st
  ELSE IF st.g[n.c][n.r] = oldColorIndex
  THEN LET g2 == SetCell(st.g, n.r, n.c, newColorIndex)
           u2 == union(st.uf, idx(gg, curr.r, curr.c), idx(gg, n.r, n.c))
       IN [g |-> g2,
           uf |-> unionNewColorNeighbors(gg, g2, u2, n, newColorIndex),
           visited |-> st.visited \cup {n},
           queue |-> Append(st.queue, n)]
  ELSE st

\* floodFill(startR, startC, newColorIndex), for an in-bounds start cell
floodFill(gg, startR, startC, newColorIndex) ==
  LET oldColorIndex == getColorIndex(gg, startR, startC)
      RECURSIVE loop(_)
      loop(st) ==
        IF st.queue = <<>> THEN st
        ELSE LET curr == Head(st.queue)
                 popped == [st EXCEPT !.queue = Tail(st.queue)]
             IN loop(FoldLeft(LAMBDA s2, n : floodVisit(gg, oldColorIndex, newColorIndex,
                                                        curr, s2, n),
                              popped, getNeighbors(gg, curr.r, curr.c)))
      start == [r |-> startR, c |-> startC]
      g1 == SetCell(gg.grid, startR, startC, newColorIndex)
      done == loop([g |-> g1,
                    uf |-> unionStartNeighbors(gg, g1, gg.uf, start, newColorIndex),
                    visited |-> {start},
                    queue |-> <<start>>])
  IN IF oldColorIndex = newColorIndex THEN gg
     ELSE [gg EXCEPT !.grid = done.g, !.uf = done.uf]

\* floodFill throws at g[startC][startR] = newColorIndex when the grid has no
\* column startC (the early return comes first)
floodFillThrows(gg, startR, startC, newColorIndex) ==
  /\ getColorIndex(gg, startR, startC) # newColorIndex
  /\ startC \notin DOMAIN gg.grid

\* getRegionCells' loop body for the neighbour n of the dequeued cell
regionVisit_noPush(gg, targetColorIndex, st, n) ==
  IF n \in st.visited THEN st
  ELSE IF ~InBounds(gg, n) THEN st
  ELSE IF HasCell(gg.grid, n.r, n.c) /\ gg.grid[n.c][n.r] = targetColorIndex
  THEN [visited |-> st.visited \cup {n},
        cells |-> Append(st.cells, [r |-> n.r, c |-> n.c]),
        queue |-> st.queue]
  ELSE st

regionVisit(gg, targetColorIndex, st, n) ==
  IF n \in st.visited THEN st
  ELSE IF ~InBounds(gg, n) THEN st
  ELSE IF HasCell(gg.grid, n.r, n.c) /\ gg.grid[n.c][n.r] = targetColorIndex
  THEN [visited |-> st.visited \cup {n},
        cells |-> Append(st.cells, [r |-> n.r, c |-> n.c]),
        queue |-> Append(st.queue, n)]
  ELSE st

\* getRegionCells(startR, startC): the cells array it returns
getRegionCells(gg, startR, startC) ==
  LET targetColorIndex == getColorIndex(gg, startR, startC)
      start == [r |-> startR, c |-> startC]
      RECURSIVE loop(_)
      loop(st) ==
        IF st.queue = <<>> THEN st
        ELSE LET curr == Head(st.queue)
                 popped == [st EXCEPT !.queue = Tail(st.queue)]
             IN loop(FoldLeft(LAMBDA s2, n : regionVisit(gg, targetColorIndex, s2, n),
                              popped, getNeighbors(gg, curr.r, curr.c)))
  IN loop([visited |-> {start}, cells |-> <<start>>, queue |-> <<start>>]).cells

(***************************************************************************)
(* GraphSolver: region-adjacency graph.  A Map is kept as the sequence of  *)
(* its keys in insertion order (ids) and the function from key to value    *)
(* (at); a node's neighbors Set is a sequence in insertion order.          *)
(***************************************************************************)
EmptyMap == [ids |-> <<>>, at |-> <<>>]

MapSize(m) == Len(m.ids)

MapHas(m, id) == id \in DOMAIN m.at

\* Map.set for a key that is not yet present
MapSet(m, id, v) ==
  IF MapHas(m, id) THEN [m EXCEPT !.at[id] = v]
  ELSE [ids |-> Append(m.ids, id),
        at |-> [k \in (DOMAIN m.at) \cup {id} |-> IF k = id THEN v ELSE m.at[k]]]

\* Map.delete
MapDelete_keepsEntry(m, id) == m

MapDelete(m, id) ==
  [ids |-> SetDelete(m.ids, id),
   at |-> [k \in (DOMAIN m.at) \ {id} |-> m.at[k]]]

\* all cells in the scan order of buildGraph (c outer, r inner)
CellsColMajor(rows, cols) ==
  [k \in 1..(rows * cols) |-> [r |-> (k - 1) % rows, c |-> (k - 1) \div rows]]

\* getIdx(r, c) of buildGraph: the regionMap index of a cell
getIdx(gg, r, c) == c * gg.rows + r

\* buildGraph's region BFS, loop body for the neighbour n of the current cell
labelVisit_noPush(gg, color, currentId, a, n) ==
  IF ~InBounds(gg, n) THEN a
  ELSE IF gg.grid[n.c][n.r] = color /\ a.regionMap[getIdx(gg, n.r, n.c)] = -1
  THEN [regionMap |-> [a.regionMap EXCEPT ![getIdx(gg, n.r, n.c)] = currentId],
        size |-> a.size + 1,
        queue |-> a.queue]
  ELSE a

labelVisit(gg, color, currentId, a, n) ==
  IF ~InBounds(gg, n) THEN a
  ELSE IF gg.grid[n.c][n.r] = color /\ a.regionMap[getIdx(gg, n.r, n.c)] = -1
  THEN [regionMap |-> [a.regionMap EXCEPT ![getIdx(gg, n.r, n.c)] = currentId],
        size |-> a.size + 1,
        queue |-> Append(a.queue, n)]
  ELSE a

\* buildGraph(): label the regions, then add the edges between regions
buildGraph(gg) ==
  LET rows == gg.rows
      cols == gg.cols
      grid == gg.grid
      \* the local BFS that labels the region of the first cell of queue
      RECURSIVE label(_, _)
      label(a, head) ==
        IF head > Len(a.queue) THEN a
        ELSE LET curr == a.queue[head]
                 color == grid[a.queue[1].c][a.queue[1].r]
                 currentId == a.regionMap[getIdx(gg, a.queue[1].r, a.queue[1].c)]
             IN label(FoldLeft(LAMBDA b, n : labelVisit(gg, color, currentId, b, n),
                               a, getNeighbors(gg, curr.r, curr.c)),
                      head + 1)
      \* pass 1: one fresh id per unvisited cell
      pass1 == FoldLeft(
        LAMBDA a, cell :
          IF a.regionMap[getIdx(gg, cell.r, cell.c)] # -1 THEN a
          ELSE LET currentId == a.regionIdCounter
                   done == label([regionMap |-> [a.regionMap EXCEPT
                                               ![getIdx(gg, cell.r, cell.c)] = currentId],
                              size |-> 1, queue |-> <<cell>>], 1)
               IN [regionMap |-> done.regionMap,
                   regionIdCounter |-> a.regionIdCounter + 1,
                   nodes |-> MapSet(a.nodes, currentId,
                                    [id |-> currentId, color |-> grid[cell.c][cell.r],
                                     size |-> done.size, neighbors |-> <<>>]),
                   idToCoord |-> MapSet(a.idToCoord, currentId, cell)],
        [regionMap |-> [i \in 0..(rows * cols - 1) |-> -1],
         regionIdCounter |-> 0, nodes |-> EmptyMap, idToCoord |-> EmptyMap],
        CellsColMajor(rows, cols))
      \* pass 2: a symmetric edge for every adjacent pair in different regions
      pass2 == FoldLeft(
        LAMBDA nodes, cell :
          FoldLeft(
            LAMBDA ns, n :
              IF ~InBounds(gg, n) THEN ns
              ELSE LET currentId == pass1.regionMap[getIdx(gg, cell.r, cell.c)]
                       neighborId == pass1.regionMap[getIdx(gg, n.r, n.c)]
                   IN IF currentId = neighborId THEN ns
                      ELSE LET a == [ns EXCEPT !.at[currentId].neighbors =
                                                 SetAdd(@, neighborId)]
                           IN [a EXCEPT !.at[neighborId].neighbors = SetAdd(@, currentId)],
            nodes, getNeighbors(gg, cell.r, cell.c)),
        pass1.nodes, CellsColMajor(rows, cols))
  IN [built |-> TRUE,
      nodes |-> pass2,
      initialRegionCount |-> pass1.regionIdCounter,
      idToCoord |-> pass1.idToCoord]

\* heuristic(nodes): number of distinct node colors - 1, at least 0
heuristic_noMinusOne(nodes) ==
  Max(0, Cardinality({nodes.at[id].color : id \in DOMAIN nodes.at}))

heuristic(nodes) ==
  Max(0, Cardinality({nodes.at[id].color : id \in DOMAIN nodes.at}) - 1)

\* getPossibleMoves(nodes): every node to every color among its neighbors
getPossibleMoves_firstNodeOnly(nodes) ==
  LET node == nodes.at[nodes.ids[1]]
      neighborColors == FoldLeft(
        LAMBDA cs, nId : IF MapHas(nodes, nId) THEN SetAdd(cs, nodes.at[nId].color)
                         ELSE cs,
        <<>>, node.neighbors)
  IN [i \in 1..Len(neighborColors) |->
        [regionId |-> node.id, targetColor |-> neighborColors[i]]]

getPossibleMoves(nodes) ==
  LET movesOf(id) ==
        LET node == nodes.at[id]
            neighborColors == FoldLeft(
              LAMBDA cs, nId : IF MapHas(nodes, nId) THEN SetAdd(cs, nodes.at[nId].color)
                               ELSE cs,
              <<>>, node.neighbors)
        IN [i \in 1..Len(neighborColors) |->
              [regionId |-> node.id, targetColor |-> neighborColors[i]]]
  IN FoldLeft(LAMBDA ms, id : ms \o movesOf(id), <<>>, nodes.ids)

\* applyMove(nodes, targetId, newColor): recolor and absorb, on a copy
applyMove_noBackLink(nodes, targetId, newColor) ==
  LET recolored == [nodes EXCEPT !.at[targetId].color = newColor]
      neighborsToMerge == SelectSeq(recolored.at[targetId].neighbors,
                                    LAMBDA nId : MapHas(recolored, nId)
                                                 /\ recolored.at[nId].color = newColor)
      merge(newNodes, mergeId) ==
        LET mergeNode == newNodes.at[mergeId]
            grown == [newNodes EXCEPT
                        !.at[targetId].size = @ + mergeNode.size,
                        !.at[targetId].neighbors = SetDelete(@, mergeId)]
            moved == FoldLeft(
              LAMBDA ns, deepNeighborId :
                IF deepNeighborId = targetId THEN ns
                ELSE [ns EXCEPT
                        !.at[targetId].neighbors = SetAdd(@, deepNeighborId),
                        !.at[deepNeighborId].neighbors = SetDelete(@, mergeId)],
              grown, mergeNode.neighbors)
        IN MapDelete(moved, mergeId)
      merged == FoldLeft(merge, recolored, neighborsToMerge)
  IN [merged EXCEPT !.at[targetId].neighbors = SetDelete(@, targetId)]

applyMove(nodes, targetId, newColor) ==
  LET recolored == [nodes EXCEPT !.at[targetId].color = newColor]
      neighborsToMerge == SelectSeq(recolored.at[targetId].neighbors,
                                    LAMBDA nId : MapHas(recolored, nId)
                                                 /\ recolored.at[nId].color = newColor)
      merge(newNodes, mergeId) ==
        LET mergeNode == newNodes.at[mergeId]
            grown == [newNodes EXCEPT
                        !.at[targetId].size = @ + mergeNode.size,
                        !.at[targetId].neighbors = SetDelete(@, mergeId)]
            moved == FoldLeft(
              LAMBDA ns, deepNeighborId :
                IF deepNeighborId = targetId THEN ns
                ELSE [ns EXCEPT
                        !.at[targetId].neighbors = SetAdd(@, deepNeighborId),
                        !.at[deepNeighborId].neighbors =
                            SetAdd(SetDelete(@, mergeId), targetId)],
              grown, mergeNode.neighbors)
        IN MapDelete(moved, mergeId)
      merged == FoldLeft(merge, recolored, neighborsToMerge)
  IN [merged EXCEPT !.at[targetId].neighbors = SetDelete(@, targetId)]

\* { ...node, neighbors: new Set(node.neighbors) }: the copy of a node made by
\* applyMove; fresh tells that the copy is a new object, freshNeighbors that
\* its neighbors Set is a new Set
copyNode_sharedNeighbors(node) == [node |-> node, fresh |-> TRUE, freshNeighbors |-> FALSE]

copyNode(node) == [node |-> node, fresh |-> TRUE, freshNeighbors |-> TRUE]

\* the Map handed to applyMove as it is after the call: newNodes is a new Map,
\* so the given Map keeps its keys; a node object or neighbors Set that
\* newNodes shares with it shows the writes applyMove made to it.  The nodes
\* deleted from newNodes are not written to before their deletion.
givenAfterApplyMove(nodes, targetId, newColor) ==
  LET newNodes == applyMove(nodes, targetId, newColor)
      after(id) ==
        LET copy == copyNode(nodes.at[id])
            last == IF MapHas(newNodes, id) THEN newNodes.at[id] ELSE nodes.at[id]
        IN IF ~copy.fresh THEN last
           ELSE IF ~copy.freshNeighbors
             THEN [nodes.at[id] EXCEPT !.neighbors = last.neighbors]
           ELSE nodes.at[id]
  IN [ids |-> nodes.ids, at |-> [id \in DOMAIN nodes.at |-> after(id)]]

Null == [found |-> FALSE]

\* the prune test of dfs
prune_atLimit(depth, h, limit) == depth + h >= limit

prune(depth, h, limit) == depth + h > limit

\* dfs(currentNodes, depth, limit, path)
RECURSIVE dfs(_, _, _, _)
dfs(currentNodes, depth, limit, path) ==
  IF MapSize(currentNodes) = 1 THEN [found |-> TRUE, steps |-> depth, path |-> path]
  ELSE IF prune(depth, heuristic(currentNodes), limit) THEN Null
  ELSE LET moves == getPossibleMoves(currentNodes)
           RECURSIVE try(_)
           try(i) ==
             IF i > Len(moves) THEN Null
             ELSE LET move == moves[i]
                      nextNodes == applyMove(currentNodes, move.regionId, move.targetColor)
                      res == dfs(nextNodes, depth + 1, limit,
                                 Append(path, [regionId |-> move.regionId,
                                               color |-> move.targetColor]))
                  IN IF res.found THEN res ELSE try(i + 1)
       IN try(1)

\* solve(maxDepthLimit): iterative deepening over limit = 0..maxDepthLimit
solve_belowLimit(gs, maxDepthLimit) ==
  LET RECURSIVE deepen(_)
      deepen(limit) ==
        IF limit >= maxDepthLimit THEN Null
        ELSE LET r == dfs(gs.nodes, 0, limit, <<>>)
             IN IF r.found THEN r ELSE deepen(limit + 1)
  IN deepen(0)

solve(gs, maxDepthLimit) ==
  LET RECURSIVE deepen(_)
      deepen(limit) ==
        IF limit > maxDepthLimit THEN Null
        ELSE LET r == dfs(gs.nodes, 0, limit, <<>>)
             IN IF r.found THEN r ELSE deepen(limit + 1)
  IN deepen(0)

\* colors[i] ?? colors[0] ?? '#fff' on a color table kept as a sequence
ColorString_noFallback(colors, i) ==
  IF i + 1 \in DOMAIN colors THEN colors[i + 1] ELSE "#fff"

ColorString(colors, i) ==
  IF i + 1 \in DOMAIN colors THEN colors[i + 1]
  ELSE IF 1 \in DOMAIN colors THEN colors[1] ELSE "#fff"

\* this.idToCoord.get(regionId) ?? { r: 0, c: 0 }: the representative cell of
\* a region id
regionCoord_origin(gs, regionId) == [r |-> 0, c |-> 0]

regionCoord(gs, regionId) ==
  IF MapHas(gs.idToCoord, regionId) THEN gs.idToCoord.at[regionId]
  ELSE [r |-> 0, c |-> 0]

\* toSolution(graphPath, colors)
toSolution_colorOfRegionId(gs, graphPath, colors) ==
  [steps |-> Len(graphPath),
   path |-> [i \in 1..Len(graphPath) |->
               [region |-> IF MapHas(gs.idToCoord, graphPath[i].regionId)
                           THEN gs.idToCoord.at[graphPath[i].regionId]
                           ELSE [r |-> 0, c |-> 0],
                color |-> ColorString(colors, graphPath[i].regionId)]]]

toSolution(gs, graphPath, colors) ==
  [steps |-> Len(graphPath),
   path |-> [i \in 1..Len(graphPath) |->
               [region |-> IF MapHas(gs.idToCoord, graphPath[i].regionId)
                           THEN gs.idToCoord.at[graphPath[i].regionId]
                           ELSE [r |-> 0, c |-> 0],
                color |-> ColorString(colors, graphPath[i].color)]]]

(***************************************************************************)
(* State machine                                                           *)
(***************************************************************************)
\* board shapes (vside_rows, cols) with at least one and at most MaxCells cells
Shapes == {s \in (0..MaxVsideRows) \X (1..MaxCols) : (2 * s[1] + 1) * s[2] <= MaxCells}

NoSolver == [built |-> FALSE]

NoResult == [called |-> FALSE]

NoCall == [op |-> "new"]

NoWalk == [walking |-> FALSE]

\* no store has been set up (the core used on its own)
NoStore == [defined |-> FALSE]

\* the maxDepthLimit arguments tried: the small caps and the store's cap
DepthArgs == (0..MaxDepthArg) \cup {StoreMaxDepth}

\* a GameGrid constructed from any color array with indices below colorCount
Init ==
  /\ \E s \in Shapes, k \in 1..NumColors :
       \E grid \in [0..(s[2] - 1) -> [0..(2 * s[1]) -> 0..(k - 1)]] :
         gameGrid = NewGameGrid(s[1], s[2], k, grid)
  /\ call = NoCall
  /\ solver = NoSolver
  /\ result = NoResult
  /\ walk = NoWalk
  /\ store = NoStore

\* a paint operation on the board, one of any sequence of them
FloodFill(r, c, k) ==
  /\ gameGrid' = floodFill(gameGrid, r, c, k)
  /\ call' = [op |-> "floodFill", same |-> (getColorIndex(gameGrid, r, c) = k)]
  /\ UNCHANGED <<solver, result, walk, store>>

Next ==
  \E r \in 0..(gameGrid.rows - 1), c \in 0..(gameGrid.cols - 1),
     k \in 0..(gameGrid.colorCount - 1) : FloodFill(r, c, k)

Spec == Init /\ [][Next]_vars

\* one floodFill call on a constructed grid, with its arguments and the
\* grid before the call kept for inspection
FillCall(r, c, k) ==
  /\ call = NoCall
  /\ gameGrid' = floodFill(gameGrid, r, c, k)
  /\ call' = [op |-> "floodFill", r |-> r, c |-> c, color |-> k, before |-> gameGrid]
  /\ UNCHANGED <<solver, result, walk, store>>

FillNext ==
  \E r \in 0..(gameGrid.rows - 1), c \in 0..(gameGrid.cols - 1),
     k \in 0..(gameGrid.colorCount - 1) : FillCall(r, c, k)

FillSpec == Init /\ [][FillNext]_vars

\* new GraphSolver(gameGrid)
NewGraphSolver ==
  /\ ~solver.built
  /\ solver' = buildGraph(gameGrid)
  /\ UNCHANGED <<gameGrid, call, result, walk, store>>

\* graphSolver.solve(maxDepthLimit)
Solve(maxDepthLimit) ==
  /\ solver.built
  /\ ~result.called
  /\ result' = [called |-> TRUE, maxDepthLimit |-> maxDepthLimit,
                value |-> solve(solver, maxDepthLimit)]
  /\ UNCHANGED <<gameGrid, call, solver, walk, store>>

SolverNext ==
  \/ NewGraphSolver
  \/ \E d \in DepthArgs : Solve(d)

SolverSpec == Init /\ [][SolverNext]_vars

\* colors numbered in the order of their first appearance in the scan of buildGraph
FirstAppearance(gg) ==
  FoldLeft(LAMBDA seen, cell : SetAdd(seen, gg.grid[cell.c][cell.r]),
           <<>>, CellsColMajor(gg.rows, gg.cols))

\* the search of dfs starts at the graph of a board; the search treats all
\* colors alike, so the boards are taken with their colors numbered in order of
\* first appearance
WalkInit ==
  /\ \E s \in Shapes, k \in 1..NumColors :
       \E grid \in [0..(s[2] - 1) -> [0..(2 * s[1]) -> 0..(k - 1)]] :
         /\ gameGrid = NewGameGrid(s[1], s[2], k, grid)
         /\ \A i \in 1..Len(FirstAppearance(gameGrid)) :
              FirstAppearance(gameGrid)[i] = i - 1
  /\ call = NoCall
  /\ solver = buildGraph(gameGrid)
  /\ result = NoResult
  /\ walk = [walking |-> TRUE, nodes |-> solver.nodes,
             h |-> heuristic(solver.nodes), depth |-> 0]
  /\ store = NoStore

\* one iteration of the move loop of dfs: descend into the graph after a move
Descend(move) ==
  /\ walk' = [walk EXCEPT !.nodes = applyMove(walk.nodes, move.regionId, move.targetColor),
                          !.depth = @ + 1]
  /\ UNCHANGED <<gameGrid, call, solver, result, store>>

\* dfs evaluates the heuristic of the graph it was called with
Evaluate ==
  /\ walk.depth > 0
  /\ walk' = [walk EXCEPT !.h = heuristic(walk.nodes), !.depth = 0]
  /\ UNCHANGED <<gameGrid, call, solver, result, store>>

WalkNext ==
  \/ \E i \in 1..Len(getPossibleMoves(walk.nodes)) : Descend(getPossibleMoves(walk.nodes)[i])
  \/ Evaluate

WalkSpec == WalkInit /\ [][WalkNext]_vars

\* one iteration of the move loop of dfs seen from the graph it was called
\* with: applyMove(currentNodes, regionId, targetColor) returns the next graph
\* and currentNodes, which at depth 0 is the solver's own graph, stays in use
\* for the following moves
ApplyMove(move) ==
  LET given == givenAfterApplyMove(walk.nodes, move.regionId, move.targetColor)
  IN /\ call' = [op |-> "applyMove", before |-> walk.nodes,
                 targetId |-> move.regionId, newColor |-> move.targetColor,
                 value |-> applyMove(walk.nodes, move.regionId, move.targetColor)]
     /\ walk' = [walk EXCEPT !.nodes = given]
     /\ solver' = IF walk.depth = 0 THEN [solver EXCEPT !.nodes = given] ELSE solver
     /\ UNCHANGED <<gameGrid, result, store>>

MoveNext ==
  /\ call = NoCall
  /\ \E i \in 1..Len(getPossibleMoves(walk.nodes)) :
       \/ Descend(getPossibleMoves(walk.nodes)[i])
       \/ ApplyMove(getPossibleMoves(walk.nodes)[i])

MoveSpec == WalkInit /\ [][MoveNext]_vars

\* one getRegionCells query on a constructed grid; the method assigns to no
\* field of the grid
GetRegionCells(r, c) ==
  /\ call = NoCall
  /\ call' = [op |-> "getRegionCells", r |-> r, c |-> c,
              value |-> getRegionCells(gameGrid, r, c), before |-> gameGrid]
  /\ UNCHANGED <<gameGrid, solver, result, walk, store>>

QueryNext ==
  \E r \in 0..(gameGrid.rows - 1), c \in 0..(gameGrid.cols - 1) : GetRegionCells(r, c)

QuerySpec == Init /\ [][QueryNext]_vars

\* GameGrid.fromJSON(gameGrid.toJSON()) on a grid that was constructed and
\* painted any number of times; call.after is the operation before it
RoundTrip ==
  /\ call.op # "roundTrip"
  /\ call' = [op |-> "roundTrip", after |-> call.op, value |-> fromJSON(toJSON(gameGrid))]
  /\ UNCHANGED <<gameGrid, solver, result, walk, store>>

RoundTripNext ==
  \/ \E r \in 0..(gameGrid.rows - 1), c \in 0..(gameGrid.cols - 1),
        k \in 0..(gameGrid.colorCount - 1) : FloodFill(r, c, k)
  \/ RoundTrip

RoundTripSpec == Init /\ [][RoundTripNext]_vars

\* a constructed grid with its colors numbered in order of first appearance
CanonicalInit ==
  /\ \E s \in Shapes, k \in 1..NumColors :
       \E grid \in [0..(s[2] - 1) -> [0..(2 * s[1]) -> 0..(k - 1)]] :
         /\ gameGrid = NewGameGrid(s[1], s[2], k, grid)
         /\ \A i \in 1..Len(FirstAppearance(gameGrid)) :
              FirstAppearance(gameGrid)[i] = i - 1
  /\ call = NoCall
  /\ solver = NoSolver
  /\ result = NoResult
  /\ walk = NoWalk
  /\ store = NoStore

\* copy = gameGrid.clone(); atClone keeps both grids as they were then
Clone ==
  /\ call = NoCall
  /\ call' = [op |-> "clone", copy |-> clone(gameGrid).grid,
              shared |-> clone(gameGrid).shared,
              atClone |-> [original |-> gameGrid, copy |-> clone(gameGrid).grid],
              onOriginal |-> 0, onCopy |-> 0]
  /\ UNCHANGED <<gameGrid, solver, result, walk, store>>

\* gameGrid.floodFill(r, c, k) after the clone was taken
FillOriginal(r, c, k) ==
  /\ call.op = "clone"
  /\ call.onOriginal + call.onCopy < MaxFillsAfterClone
  /\ gameGrid' = floodFill(gameGrid, r, c, k)
  /\ call' = [call EXCEPT !.copy = WriteThrough(@, gameGrid', call.shared),
                          !.onOriginal = @ + 1]
  /\ UNCHANGED <<solver, result, walk, store>>

\* copy.floodFill(r, c, k)
FillCopy(r, c, k) ==
  /\ call.op = "clone"
  /\ call.onOriginal + call.onCopy < MaxFillsAfterClone
  /\ call' = [call EXCEPT !.copy = floodFill(@, r, c, k), !.onCopy = @ + 1]
  /\ gameGrid' = WriteThrough(gameGrid, call'.copy, call.shared)
  /\ UNCHANGED <<solver, result, walk, store>>

CloneNext ==
  \/ Clone
  \/ \E r \in 0..(gameGrid.rows - 1), c \in 0..(gameGrid.cols - 1),
        k \in 0..(gameGrid.colorCount - 1) :
          \/ FillOriginal(r, c, k)
          \/ FillCopy(r, c, k)

CloneSpec == CanonicalInit /\ [][CloneNext]_vars

\* the first entries of PRESET_COLORS
Palette == <<"#FF6B6B", "#4ECDC4", "#FFE66D", "#1A535C">>

\* the color tables handed to toSolution: the palettes of one to four colors
ColorTables == {SubSeq(Palette, 1, n) : n \in 1..Len(Palette)}

\* graphSolver.solve(15), as solvePuzzle calls it
SolveForStore ==
  /\ call = NoCall
  /\ Solve(StoreMaxDepth)

\* graphSolver.toSolution(result.path, colors) on the path solve returned
ToSolution(colors) ==
  /\ result.called /\ result.value.found
  /\ call = NoCall
  /\ call' = [op |-> "toSolution", graphPath |-> result.value.path, colors |-> colors,
              value |-> toSolution(solver, result.value.path, colors)]
  /\ UNCHANGED <<gameGrid, solver, result, walk, store>>

ToSolutionNext ==
  \/ NewGraphSolver
  \/ SolveForStore
  \/ \E colors \in ColorTables : ToSolution(colors)

ToSolutionSpec == CanonicalInit /\ [][ToSolutionNext]_vars

\* no GameGrid exists yet
NoGrid == [null |-> TRUE]

\* the color indices found in the grid of a snapshot
SnapColors == 0..1

\* the rows field of a snapshot: odd and even values
SnapRows == 1..(2 * MaxVsideRows + 2)

\* the rows, cols and grid fields of a snapshot: a grid of cols columns of rows
\* entries
SnapBodies ==
  UNION {{[rows |-> sh[1], cols |-> sh[2], grid |-> g] :
            g \in [0..(sh[2] - 1) -> [0..(sh[1] - 1) -> SnapColors]]} :
           sh \in {x \in SnapRows \X (1..MaxCols) : x[1] * x[2] <= MaxCells}}

\* the values of the optional colorCount field
SnapColorCounts == {0, 3}

\* the values of the optional colors field
SnapColorTables == {<<>>, SubSeq(Palette, 1, 2)}

\* the parsed snapshots given to fromJSON, with and without the optional fields
Snapshots ==
  {[rows |-> b.rows, cols |-> b.cols, grid |-> b.grid] : b \in SnapBodies}
  \cup {[rows |-> b.rows, cols |-> b.cols, grid |-> b.grid, colorCount |-> k] :
          b \in SnapBodies, k \in SnapColorCounts}
  \cup {[rows |-> b.rows, cols |-> b.cols, grid |-> b.grid, colors |-> t] :
          b \in SnapBodies, t \in SnapColorTables}
  \cup {[rows |-> b.rows, cols |-> b.cols, grid |-> b.grid, colorCount |-> k, colors |-> t] :
          b \in SnapBodies, k \in SnapColorCounts, t \in SnapColorTables}

ImportInit ==
  /\ gameGrid = NoGrid
  /\ call = NoCall
  /\ solver = NoSolver
  /\ result = NoResult
  /\ walk = NoWalk
  /\ store = NoStore

\* new GameGrid(vside_rows, cols, colorCount) without a color array
Construct(vside_rows, cols, colorCount) ==
  /\ gameGrid = NoGrid
  /\ gameGrid' = NewGameGrid(vside_rows, cols, colorCount,
                             ZeroGrid(2 * vside_rows + 1, cols))
  /\ call' = [op |-> "construct"]
  /\ UNCHANGED <<solver, result, walk, store>>

\* GameGrid.fromJSON(data)
FromJSON(data) ==
  /\ gameGrid = NoGrid
  /\ gameGrid' = fromJSON(data)
  /\ call' = [op |-> "fromJSON", data |-> data]
  /\ UNCHANGED <<solver, result, walk, store>>

\* the start rows tried by the first floodFill on a grid: every row of the
\* board and one row beyond it that has no neighbour on the board
StartRows == (0..(gameGrid.rows - 1)) \cup {gameGrid.rows + 1}

\* the start columns tried: every column of the board and one beyond it
StartCols == (0..(gameGrid.cols - 1)) \cup {gameGrid.cols}

\* floodFill(r, c, k) with any start coordinate and any integer k; a thrown
\* TypeError leaves the grid as it was
FloodFillAny(r, c, k) ==
  /\ call.op \in {"construct", "fromJSON"}
  /\ gameGrid' = IF floodFillThrows(gameGrid, r, c, k) THEN gameGrid
                 ELSE floodFill(gameGrid, r, c, k)
  /\ call' = [op |-> "floodFill", r |-> r, c |-> c, color |-> k,
              threw |-> floodFillThrows(gameGrid, r, c, k), before |-> gameGrid]
  /\ UNCHANGED <<solver, result, walk, store>>

ImportNext ==
  \/ \E s \in Shapes, k \in 0..NumColors : Construct(s[1], s[2], k)
  \/ \E data \in Snapshots : FromJSON(data)
  \/ /\ gameGrid # NoGrid
     /\ \E r \in StartRows, c \in StartCols, k \in (-1)..NumColors : FloodFillAny(r, c, k)

ImportSpec == ImportInit /\ [][ImportNext]_vars

\* the rows asked of getColorIndex: the rows of the board, one above it and
\* two below it
ReadRows == (-1)..(gameGrid.rows + 1)

\* the columns asked of getColorIndex: the columns of the board and one on
\* either side of it
ReadCols == (-1)..gameGrid.cols

\* getColorIndex(r, c) on a grid that was constructed or imported; the method
\* assigns to nothing
GetColorIndex(r, c) ==
  /\ call.op \in {"construct", "fromJSON"}
  /\ call' = [op |-> "getColorIndex", r |-> r, c |-> c,
              value |-> getColorIndex(gameGrid, r, c)]
  /\ UNCHANGED <<gameGrid, solver, result, walk, store>>

ReadNext ==
  \/ \E s \in Shapes, k \in 0..NumColors : Construct(s[1], s[2], k)
  \/ \E data \in Snapshots : FromJSON(data)
  \/ /\ gameGrid # NoGrid
     /\ \E r \in ReadRows, c \in ReadCols : GetColorIndex(r, c)

ReadSpec == ImportInit /\ [][ReadNext]_vars

\* dfs goes on to its move loop: the graph is not down to one node and the
\* prune test lets it pass
dfsExpands_noPrune(currentNodes, depth, limit) == MapSize(currentNodes) # 1

dfsExpands(currentNodes, depth, limit) ==
  /\ MapSize(currentNodes) # 1
  /\ ~prune(depth, heuristic(currentNodes), limit)

\* no board has been made yet
DfsInit ==
  /\ gameGrid = [null |-> TRUE]
  /\ call = NoCall
  /\ solver = NoSolver
  /\ result = NoResult
  /\ walk = NoWalk
  /\ store = NoStore

\* a board is constructed, a GraphSolver is made of it, and solve calls
\* dfs(this.nodes, 0, limit, []) for one of its limits; the boards are taken
\* with their colors numbered in order of first appearance
DfsCall(board, limit) ==
  /\ ~walk.walking
  /\ \A i \in 1..Len(FirstAppearance(board)) : FirstAppearance(board)[i] = i - 1
  /\ gameGrid' = board
  /\ solver' = buildGraph(board)
  /\ walk' = [walking |-> TRUE, nodes |-> buildGraph(board).nodes, depth |-> 0,
              limit |-> limit]
  /\ UNCHANGED <<call, result, store>>

\* dfs applies a move and calls itself on the new graph, one level deeper
DfsDescend(move) ==
  /\ walk.walking
  /\ dfsExpands(walk.nodes, walk.depth, walk.limit)
  /\ walk' = [walk EXCEPT !.nodes = applyMove(walk.nodes, move.regionId, move.targetColor),
                          !.depth = @ + 1]
  /\ UNCHANGED <<gameGrid, call, solver, result, store>>

\* the recursive calls of the move loop
DfsStep ==
  /\ walk.walking
  /\ \E i \in 1..Len(getPossibleMoves(walk.nodes)) :
       DfsDescend(getPossibleMoves(walk.nodes)[i])

DfsNext ==
  \/ /\ ~walk.walking
     /\ \E s \in Shapes, k \in 1..NumColors, limit \in DepthArgs :
          \E grid \in [0..(s[2] - 1) -> [0..(2 * s[1]) -> 0..(k - 1)]] :
            DfsCall(NewGameGrid(s[1], s[2], k, grid), limit)
  \/ DfsStep

DfsSpec == DfsInit /\ [][DfsNext]_vars

\* the moves of a found solution are played back on a clone of the board;
\* graph is the solver's graph after the same moves
StartReplay ==
  /\ call = NoCall
  /\ result.called /\ result.value.found
  /\ call' = [op |-> "replay", step |-> 0, board |-> clone(gameGrid).grid,
              graph |-> solver.nodes]
  /\ UNCHANGED <<gameGrid, solver, result, walk, store>>

\* the next move of the solution: floodFill on the clone at the representative
\* cell of the move's region id with the move's color index; region and node
\* keep the cells about to be recolored and the graph node of the move
ReplayMove ==
  /\ call.op = "replay"
  /\ call.step < Len(result.value.path)
  /\ LET move == result.value.path[call.step + 1]
         coord == regionCoord(solver, move.regionId)
     IN call' = [op |-> "replay", step |-> call.step + 1,
                 board |-> floodFill(call.board, coord.r, coord.c, move.color),
                 graph |-> applyMove(call.graph, move.regionId, move.color),
                 coord |-> coord,
                 region |-> getRegionCells(call.board, coord.r, coord.c),
                 regionColor |-> getColorIndex(call.board, coord.r, coord.c),
                 node |-> call.graph.at[move.regionId]]
  /\ UNCHANGED <<gameGrid, solver, result, walk, store>>

ReplayNext ==
  \/ NewGraphSolver
  \/ \E d \in DepthArgs : Solve(d)
  \/ StartReplay
  \/ ReplayMove

ReplaySpec == CanonicalInit /\ [][ReplayNext]_vars

\* a freshly constructed all-zero board of any of the larger shapes
MeshInit ==
  /\ \E vs \in 0..MaxMeshVsideRows, cols \in 1..MaxMeshCols, k \in 1..NumColors :
       gameGrid = NewGameGrid(vs, cols, k, ZeroGrid(2 * vs + 1, cols))
  /\ call = NoCall
  /\ solver = NoSolver
  /\ result = NoResult
  /\ walk = NoWalk
  /\ store = NoStore

\* getNeighbors(r, c) for a cell of the board
GetNeighbors(r, c) ==
  /\ call' = [op |-> "getNeighbors", r |-> r, c |-> c, value |-> getNeighbors(gameGrid, r, c)]
  /\ UNCHANGED <<gameGrid, solver, result, walk, store>>

MeshNext ==
  \E r \in 0..(gameGrid.rows - 1), c \in 0..(gameGrid.cols - 1) : GetNeighbors(r, c)

MeshSpec == MeshInit /\ [][MeshNext]_vars

\* a grid argument with every cell of one color
PaintedGrid(rows, cols, color) ==
  [c \in 0..(cols - 1) |-> [r \in 0..(rows - 1) |-> color]]

\* a board of any of the larger shapes in a single color: constructed without
\* a grid argument, or with a grid painted in one color of its palette
PaintedInit ==
  /\ \E vs \in 0..MaxMeshVsideRows, cols \in 1..MaxMeshCols, k \in 1..NumColors :
       \/ gameGrid = NewGameGrid(vs, cols, k, ZeroGrid(2 * vs + 1, cols))
       \/ \E color \in 0..(k - 1) :
            gameGrid = NewGameGrid(vs, cols, k, PaintedGrid(2 * vs + 1, cols, color))
  /\ call = NoCall
  /\ solver = NoSolver
  /\ result = NoResult
  /\ walk = NoWalk
  /\ store = NoStore

PaintedSpec == PaintedInit /\ [][MeshNext]_vars

(***************************************************************************)
(* gameStore: the edit state kept in localStorage                          *)
(***************************************************************************)
\* DEFAULT_COLORS
DEFAULT_COLORS == <<"#FF6B6B", "#4ECDC4", "#FFE66D">>

\* localStorage.getItem(EDIT_STORAGE_KEY) when nothing is stored under the key
Absent == [kind |-> "absent"]

\* a stored string that is not JSON
NotJSON(text) == [kind |-> "text", text |-> text]

\* JSON.stringify(value): the text that denotes value
JSONstringify(value) == [kind |-> "json", value |-> value]

\* JSON.parse(raw): the value denoted by a JSON text; any other string throws
JSONparse(raw) ==
  IF raw.kind = "json" THEN [threw |-> FALSE, value |-> raw.value]
  ELSE [threw |-> TRUE]

\* !raw: getItem returned null or the empty string
IsFalsyRaw(raw) == raw.kind = "absent" \/ (raw.kind = "text" /\ raw.text = "")

\* the parsed JSON values that are not objects: null and a number
JsonNull == [type |-> "null"]
JsonNumber == [type |-> "number"]

\* a parsed value is an object
IsObject(data) == "type" \notin DOMAIN data

\* !data?.grid?.length
NoGridLength(data) ==
  \/ ~IsObject(data)
  \/ ~HasField(data, "grid")
  \/ ArrLen(data.grid) = 0

\* the body of the try block of loadEditState; threw tells that it was left by
\* an exception, paletteColors is the palette it leaves behind
tryLoadEditState(st) ==
  LET raw == st.storage
      parsed == JSONparse(raw)
      data == parsed.value
      colors == IF HasField(data, "colors") /\ Len(data.colors) > 0
                THEN data.colors ELSE DEFAULT_COLORS
  IN IF IsFalsyRaw(raw)
       THEN [threw |-> FALSE, value |-> NoGrid, paletteColors |-> st.paletteColors]
     ELSE IF parsed.threw
       THEN [threw |-> TRUE, value |-> NoGrid, paletteColors |-> st.paletteColors]
     ELSE IF NoGridLength(data)
       THEN [threw |-> FALSE, value |-> NoGrid, paletteColors |-> st.paletteColors]
     ELSE [threw |-> FALSE, value |-> fromJSON(data), paletteColors |-> colors]

\* loadEditState(): the try block, and null from the catch block
loadEditState_noCatch(st) == tryLoadEditState(st)

loadEditState(st) ==
  LET t == tryLoadEditState(st)
  IN IF t.threw THEN [t EXCEPT !.threw = FALSE, !.value = NoGrid] ELSE t

\* saveEditState(): the store after it
saveEditState_withoutColors(st, gg) ==
  IF st.mode # "EDIT" \/ gg = NoGrid THEN st
  ELSE [st EXCEPT !.storage = JSONstringify(toJSON(gg))]

saveEditState(st, gg) ==
  IF st.mode # "EDIT" \/ gg = NoGrid THEN st
  ELSE LET payload == [colors |-> st.paletteColors] @@ toJSON(gg)
       IN [st EXCEPT !.storage = JSONstringify(payload)]

\* null in selectedStepIndex
NullIndex == -1

\* null in blinkTimer; setInterval returns positive ids
NullTimer == 0

\* null in solution
NoSolution == [null |-> TRUE]

\* if (blinkTimer !== null) { clearInterval(blinkTimer); blinkTimer = null }:
\* the interval with that id is never called again
clearInterval_onlyForgets(st) == [st EXCEPT !.blinkTimer = NullTimer]

clearInterval(st) ==
  [st EXCEPT !.intervals = {t \in @ : t.id # st.blinkTimer},
             !.blinkTimer = NullTimer]

\* the same followed by isBlinking.value = false
clearBlinkTimer(st) == [clearInterval(st) EXCEPT !.isBlinking = FALSE]

\* gameGrid.value is given another GameGrid object: the solve tasks not yet
\* run keep the object they captured, which is no longer the store's
detached(timeouts) ==
  [i \in 1..Len(timeouts) |-> [timeouts[i] EXCEPT !.current = FALSE]]

\* new GameGrid(VSIDE_ROWS, COLS, paletteColors.length) on the default palette
DefaultGrid ==
  NewGameGrid(VSIDE_ROWS, COLS, Len(DEFAULT_COLORS), ZeroGrid(2 * VSIDE_ROWS + 1, COLS))

\* initGrid(): the store and the grid after it
initGrid(st) ==
  LET st1 == [clearBlinkTimer(st) EXCEPT !.paletteColors = DEFAULT_COLORS,
                                         !.timeouts = detached(@),
                                         !.stepCount = 0,
                                         !.selectedStepIndex = NullIndex,
                                         !.highlightCells = <<>>,
                                         !.initialGameGridForSolution = NoGrid,
                                         !.selectedColorIndex = 0]
  IN [store |-> saveEditState(st1, DefaultGrid), gameGrid |-> DefaultGrid]

\* loadEditStateOrInit(): the store and the grid after it, with what
\* loadEditState returned and left behind
loadEditStateOrInit(st, gg) ==
  LET l == loadEditState(st)
      st1 == [st EXCEPT !.paletteColors = l.paletteColors]
      afterLoad == [paletteColors |-> st1.paletteColors, gameGrid |-> gg]
      fresh == initGrid(st1)
      reset == [clearBlinkTimer(st1) EXCEPT !.timeouts = detached(@),
                                            !.stepCount = 0,
                                            !.selectedStepIndex = NullIndex,
                                            !.highlightCells = <<>>,
                                            !.initialGameGridForSolution = NoGrid]
  IN IF l.threw
       THEN [store |-> st1, gameGrid |-> gg, loaded |-> FALSE,
             afterLoad |-> afterLoad, threw |-> TRUE]
     ELSE IF l.value # NoGrid
       THEN [store |-> reset, gameGrid |-> l.value, loaded |-> TRUE,
             afterLoad |-> afterLoad, threw |-> FALSE]
     ELSE [store |-> fresh.store, gameGrid |-> fresh.gameGrid, loaded |-> FALSE,
           afterLoad |-> afterLoad, threw |-> FALSE]

\* the snapshots found in localStorage: the snapshots of one-cell boards
StoredSnapshots == {d \in Snapshots : d.rows * d.cols = 1}

\* what localStorage holds under the key when the store is created
StoredTexts ==
  {Absent, NotJSON(""), NotJSON("{"),
   JSONstringify(JsonNull), JSONstringify(JsonNumber),
   JSONstringify([rows |-> 1, cols |-> 1]),
   JSONstringify([rows |-> 1, cols |-> 1, grid |-> <<>>])}
  \cup {JSONstringify(d) : d \in StoredSnapshots}

\* the grids handed to setGameGrid
EditedGrids == {fromJSON(d) : d \in StoredSnapshots}

\* the refs of the store as defineStore creates them, with what localStorage
\* holds under the key; timeouts are the solve tasks handed to setTimeout and
\* not yet run, intervals the blink timers set and not yet cleared
NewStore(raw) ==
  [mode |-> "EDIT", selectedColorIndex |-> 0, paletteColors |-> <<>>,
   stepCount |-> 0, solution |-> NoSolution, solving |-> FALSE,
   selectedStepIndex |-> NullIndex, highlightCells |-> <<>>,
   initialGameGridForSolution |-> NoGrid, isBlinking |-> FALSE,
   blinkTimer |-> NullTimer, timeouts |-> <<>>, intervals |-> {},
   storage |-> raw]

\* the store as defineStore creates it
StoreInit ==
  /\ \E raw \in StoredTexts : store = NewStore(raw)
  /\ gameGrid = NoGrid
  /\ call = NoCall
  /\ solver = NoSolver
  /\ result = NoResult
  /\ walk = NoWalk

\* what loadEditStateOrInit found when it was called
Before == [paletteColors |-> store.paletteColors, gameGrid |-> gameGrid,
           storage |-> store.storage]

\* loadEditStateOrInit()
LoadEditStateOrInit ==
  LET o == loadEditStateOrInit(store, gameGrid)
  IN /\ store' = o.store
     /\ gameGrid' = o.gameGrid
     /\ call' = [op |-> "loadEditStateOrInit", before |-> Before, loaded |-> o.loaded,
                 afterLoad |-> o.afterLoad, threw |-> o.threw]
     /\ UNCHANGED <<solver, result, walk>>

\* setMode(newMode)
SetMode(newMode) ==
  LET st1 == [store EXCEPT !.mode = newMode]
      o == loadEditStateOrInit(st1, gameGrid)
  IN /\ IF newMode = "EDIT"
          THEN /\ store' = o.store
               /\ gameGrid' = o.gameGrid
               /\ call' = [op |-> "setMode", before |-> Before, loaded |-> o.loaded,
                           afterLoad |-> o.afterLoad, threw |-> o.threw]
          ELSE /\ store' = st1
               /\ gameGrid' = gameGrid
               /\ call' = [op |-> "setModePlay"]
     /\ UNCHANGED <<solver, result, walk>>

\* initGrid()
InitGrid ==
  LET o == initGrid(store)
  IN /\ store' = o.store
     /\ gameGrid' = o.gameGrid
     /\ call' = [op |-> "initGrid", saved |-> (o.store.storage # store.storage)]
     /\ UNCHANGED <<solver, result, walk>>

\* setGameGrid(newGameGrid)
SetGameGrid(newGameGrid) ==
  /\ gameGrid' = newGameGrid
  /\ store' = saveEditState([store EXCEPT !.timeouts = detached(@)], newGameGrid)
  /\ call' = [op |-> "setGameGrid",
              saved |-> (saveEditState(store, newGameGrid).storage # store.storage)]
  /\ UNCHANGED <<solver, result, walk>>

StoreNext ==
  \/ LoadEditStateOrInit
  \/ \E newMode \in {"EDIT", "PLAY"} : SetMode(newMode)
  \/ InitGrid
  \/ \E newGameGrid \in EditedGrids : SetGameGrid(newGameGrid)

StoreSpec == StoreInit /\ [][StoreNext]_vars

(***************************************************************************)
(* gameStore: the palette                                                  *)
(***************************************************************************)
\* the strings '#' + Math.floor(Math.random() * 0xffffff).toString(16)
\* .padStart(6, '0') can give
RandomHexColors == {"#00000a"}

\* randomNewColor(existing): the colors it can return
randomNewColor(existing) ==
  LET pool == Range(Palette) \ Range(existing)
  IN IF pool # {} THEN pool ELSE RandomHexColors

\* addColor() when randomNewColor returned color: the store and the grid
\* after it
addColor(st, gg, color) ==
  IF st.mode # "EDIT" \/ gg = NoGrid THEN [store |-> st, gameGrid |-> gg]
  ELSE LET st1 == [st EXCEPT !.paletteColors = Append(@, color),
                             !.timeouts = detached(@)]
           newGrid == NewGameGrid(gg.vside_rows, gg.cols, Len(st1.paletteColors), gg.grid)
       IN [store |-> saveEditState(st1, newGrid), gameGrid |-> newGrid]

\* pal.filter((_, i) => i !== index), index counted from 0
filterOut(pal, index) ==
  [i \in 1..(Len(pal) - 1) |-> IF i <= index THEN pal[i] ELSE pal[i + 1]]

\* remap of removeColor
remap(index, v) ==
  IF v = index THEN 0
  ELSE IF v > index THEN v - 1
  ELSE v

\* removeColor(index): the store and the grid after it
removeColor(st, gg, index) ==
  IF st.mode # "EDIT" \/ gg = NoGrid THEN [store |-> st, gameGrid |-> gg]
  ELSE IF Len(st.paletteColors) <= 1 \/ index < 0 \/ index >= Len(st.paletteColors)
    THEN [store |-> st, gameGrid |-> gg]
  ELSE LET st1 == [st EXCEPT !.paletteColors = filterOut(@, index),
                             !.timeouts = detached(@)]
           grid == [c \in DOMAIN gg.grid |->
                      [r \in DOMAIN gg.grid[c] |-> remap(index, gg.grid[c][r])]]
           newGrid == NewGameGrid(gg.vside_rows, gg.cols, Len(st1.paletteColors), grid)
           st2 == IF st1.selectedColorIndex >= Len(st1.paletteColors)
                    THEN [st1 EXCEPT !.selectedColorIndex = Len(st1.paletteColors) - 1]
                  ELSE IF st1.selectedColorIndex > index
                    THEN [st1 EXCEPT !.selectedColorIndex = @ - 1]
                  ELSE st1
       IN [store |-> saveEditState(st2, newGrid), gameGrid |-> newGrid]

\* addColor(), for palettes below the bound
AddColor(color) ==
  LET o == addColor(store, gameGrid, color)
  IN /\ Len(store.paletteColors) < MaxPaletteLen
     /\ store' = o.store
     /\ gameGrid' = o.gameGrid
     /\ call' = [op |-> "addColor"]
     /\ UNCHANGED <<solver, result, walk>>

\* removeColor(index)
RemoveColor(index) ==
  LET o == removeColor(store, gameGrid, index)
  IN /\ store' = o.store
     /\ gameGrid' = o.gameGrid
     /\ call' = [op |-> "removeColor"]
     /\ UNCHANGED <<solver, result, walk>>

PaletteNext ==
  \/ LoadEditStateOrInit
  \/ \E newMode \in {"EDIT", "PLAY"} : SetMode(newMode)
  \/ InitGrid
  \/ \E color \in randomNewColor(store.paletteColors) : AddColor(color)
  \/ \E index \in (-1)..Len(store.paletteColors) : RemoveColor(index)

\* the store as defineStore creates it when localStorage holds a snapshot that
\* loadEditState accepts
PaletteInit ==
  /\ \E d \in StoredSnapshots : store = NewStore(JSONstringify(d))
  /\ gameGrid = NoGrid
  /\ call = NoCall
  /\ solver = NoSolver
  /\ result = NoResult
  /\ walk = NoWalk

PaletteSpec == PaletteInit /\ [][PaletteNext]_vars

(***************************************************************************)
(* gameStore: solvePuzzle, its deferred task, and the blink timer          *)
(***************************************************************************)
\* maxBlinks of selectStep
maxBlinks == 6

\* gameGrid.floodFill wrote to the GameGrid object of gameGrid.value: the solve
\* tasks that captured this object find the new contents in it
written(timeouts, gg) ==
  [i \in 1..Len(timeouts) |->
     IF timeouts[i].current THEN [timeouts[i] EXCEPT !.grid = gg] ELSE timeouts[i]]

\* solvePuzzle(): the store after it; the task handed to setTimeout keeps the
\* GameGrid object of gameGrid.value (grid) and the palette (colors)
solvePuzzle(st, gg) ==
  IF gg = NoGrid THEN st
  ELSE LET st1 == [st EXCEPT !.solving = TRUE,
                             !.solution = NoSolution,
                             !.selectedStepIndex = NullIndex,
                             !.highlightCells = <<>>]
           st2 == clearBlinkTimer(st1)
       IN [st2 EXCEPT !.initialGameGridForSolution = clone(gg).grid,
                      !.timeouts = Append(@, [grid |-> gg, current |-> TRUE,
                                              colors |-> st.paletteColors])]

\* new GraphSolver(grid) throws: buildGraph reads grid[c][r] of a column the
\* color array does not have
buildGraphThrows(gg) ==
  gg.rows >= 1 /\ \E c \in 0..(gg.cols - 1) : c \notin DOMAIN gg.grid

\* the callback of setTimeout in solvePuzzle: the store after it, given the
\* graphSolver that new GraphSolver(grid) made and the graphResult that its
\* solve(15) returned
solveTask(st, task, graphSolver, graphResult) ==
  IF buildGraphThrows(task.grid) THEN [st EXCEPT !.solving = FALSE]
  ELSE LET res == IF graphResult.value.found
                  THEN toSolution(graphSolver, graphResult.value.path, task.colors)
                  ELSE NoSolution
       IN [st EXCEPT !.solution = res, !.solving = FALSE]

\* the id setInterval returns: one that no interval in use has
newTimerId(st) ==
  CHOOSE n \in 1..(Cardinality(st.intervals) + 2) :
    n # st.blinkTimer /\ \A t \in st.intervals : t.id # n

\* selectStep(index): the store after it; an interval keeps its id, its
\* blinkCount and the cells it shows
selectStep(st, index) ==
  IF \/ st.solution = NoSolution
     \/ index + 1 \notin DOMAIN st.solution.path
     \/ st.initialGameGridForSolution = NoGrid
  THEN st
  ELSE LET st1 == [clearInterval(st) EXCEPT !.selectedStepIndex = index]
           step == st.solution.path[index + 1]
           regionCells == getRegionCells(st.initialGameGridForSolution,
                                         step.region.r, step.region.c)
           cells == [i \in 1..Len(regionCells) |->
                       [r |-> regionCells[i].r, c |-> regionCells[i].c,
                        color |-> step.color]]
           id == newTimerId(st1)
       IN [st1 EXCEPT !.highlightCells = cells,
                      !.isBlinking = TRUE,
                      !.intervals = @ \cup {[id |-> id, blinkCount |-> 1, cells |-> cells]},
                      !.blinkTimer = id]

\* the callback of setInterval in selectStep, for the interval t
tick(st, t) ==
  LET blinkCount == t.blinkCount + 1
      st1 == [st EXCEPT !.highlightCells = IF blinkCount % 2 = 0 THEN t.cells ELSE <<>>,
                        !.intervals = (@ \ {t}) \cup {[t EXCEPT !.blinkCount = blinkCount]}]
  IN IF blinkCount >= maxBlinks
     THEN [clearInterval(st1) EXCEPT !.highlightCells = <<>>,
                                     !.isBlinking = FALSE,
                                     !.selectedStepIndex = NullIndex]
     ELSE st1

\* cleanup()
cleanup(st) == clearBlinkTimer(st)

\* snapshots of puzzles: a column A, B, A; a row of two cells A, A, which
\* are not adjacent; a snapshot of two columns whose grid has only one
ColumnABA ==
  [rows |-> 3, cols |-> 1, colors |-> SubSeq(Palette, 1, 2),
   grid |-> (0 :> (0 :> 0 @@ 1 :> 1 @@ 2 :> 0))]

RowAA ==
  [rows |-> 1, cols |-> 2, colors |-> SubSeq(Palette, 1, 2),
   grid |-> (0 :> (0 :> 0) @@ 1 :> (0 :> 0))]

RowMissingColumn ==
  [rows |-> 1, cols |-> 2, colors |-> SubSeq(Palette, 1, 2),
   grid |-> (0 :> (0 :> 0))]

\* the store as defineStore creates it when localStorage holds one of the
\* snapshots
PuzzleInit(snapshots) ==
  /\ \E d \in snapshots : store = NewStore(JSONstringify(d))
  /\ gameGrid = NoGrid
  /\ call = NoCall
  /\ solver = NoSolver
  /\ result = NoResult
  /\ walk = NoWalk

\* gameGrid.value.floodFill(r, c, k) on a cell of the board
Paint(r, c, k) ==
  /\ gameGrid # NoGrid
  /\ HasCell(gameGrid.grid, r, c)
  /\ gameGrid' = floodFill(gameGrid, r, c, k)
  /\ store' = [store EXCEPT !.timeouts = written(@, gameGrid')]
  /\ call' = [op |-> "floodFill", r |-> r, c |-> c, color |-> k]
  /\ UNCHANGED <<solver, result, walk>>

\* solvePuzzle(), while fewer than MaxPendingSolves tasks wait
SolvePuzzle ==
  /\ Len(store.timeouts) < MaxPendingSolves
  /\ store' = solvePuzzle(store, gameGrid)
  /\ call' = [op |-> "solvePuzzle"]
  /\ UNCHANGED <<gameGrid, solver, result, walk>>

\* the oldest waiting solve task runs; grid keeps the contents it solved
RunSolveTask ==
  /\ Len(store.timeouts) > 0
  /\ \E task \in {Head(store.timeouts)} :
       /\ solver' = IF buildGraphThrows(task.grid) THEN NoSolver
                    ELSE buildGraph(task.grid)
       /\ result' = IF solver'.built
                    THEN [called |-> TRUE, maxDepthLimit |-> StoreMaxDepth,
                          value |-> solve(solver', StoreMaxDepth)]
                    ELSE NoResult
       /\ store' = [solveTask(store, task, solver', result') EXCEPT !.timeouts = Tail(@)]
       /\ call' = [op |-> "solveTask", grid |-> task.grid,
                   threw |-> buildGraphThrows(task.grid)]
  /\ UNCHANGED <<gameGrid, walk>>

\* selectStep(index)
SelectStep(index) ==
  /\ store' = selectStep(store, index)
  /\ call' = [op |-> "selectStep", index |-> index,
              selected |-> (store'.blinkTimer # store.blinkTimer)]
  /\ UNCHANGED <<gameGrid, solver, result, walk>>

\* the interval t fires
Tick(t) ==
  /\ store' = tick(store, t)
  /\ call' = [op |-> "tick", blinkCount |-> t.blinkCount + 1]
  /\ UNCHANGED <<gameGrid, solver, result, walk>>

\* cleanup()
Cleanup ==
  /\ store' = cleanup(store)
  /\ call' = [op |-> "cleanup"]
  /\ UNCHANGED <<gameGrid, solver, result, walk>>

\* the indices handed to selectStep
StepIndices ==
  IF store.solution = NoSolution THEN {0}
  ELSE (-1)..Len(store.solution.path)

TaskInit == PuzzleInit({ColumnABA, RowMissingColumn})

TaskNext ==
  \/ LoadEditStateOrInit
  \/ \E newGameGrid \in {fromJSON(RowAA)} : SetGameGrid(newGameGrid)
  \/ /\ gameGrid # NoGrid
     /\ \E k \in 0..(gameGrid.colorCount - 1) : Paint(0, 0, k)
  \/ SolvePuzzle
  \/ RunSolveTask

TaskSpec == TaskInit /\ [][TaskNext]_vars

BlinkInit == PuzzleInit({ColumnABA})

BlinkNext ==
  \/ LoadEditStateOrInit
  \/ InitGrid
  \/ SolvePuzzle
  \/ RunSolveTask
  \/ \E index \in StepIndices : SelectStep(index)
  \/ \E t \in store.intervals : Tick(t)
  \/ Cleanup

BlinkSpec == BlinkInit /\ [][BlinkNext]_vars

(***************************************************************************)
(* From-scratch reference definitions used by the properties.              *)
(***************************************************************************)
Cells(gg) == {[r |-> r, c |-> c] : r \in 0..(gg.rows - 1), c \in 0..(gg.cols - 1)}

Adjacent(gg, p, q) == q \in Range(getNeighbors(gg, p.r, p.c))

ColorOf(gg, p) == gg.grid[p.c][p.r]

\* the maximal same-color connected region of p, by a from-scratch closure
RegionOf(gg, p) ==
  LET RECURSIVE grow(_)
      grow(S) ==
        LET T == S \cup {q \in Cells(gg) : /\ ColorOf(gg, q) = ColorOf(gg, p)
                                          /\ \E s \in S : Adjacent(gg, s, q)}
        IN IF T = S THEN S ELSE grow(T)
  IN grow({p})

\* the from-scratch partition of the board into regions
BFSPartition(gg) == {RegionOf(gg, p) : p \in Cells(gg)}

\* the partition of the cells held by a union-find
UFPartition(gg, uf) ==
  {{q \in Cells(gg) : find(uf, q.r * gg.cols + q.c) = find(uf, p.r * gg.cols + p.c)} :
     p \in Cells(gg)}

\* the color array with its colors renumbered in order of first appearance
Canon(gg) ==
  LET seen == FirstAppearance(gg)
      pos(v) == CHOOSE i \in 1..Len(seen) : seen[i] = v
  IN [c \in 0..(gg.cols - 1) |-> [r \in 0..(gg.rows - 1) |-> pos(gg.grid[c][r]) - 1]]

\* the color array after painting the region of p with color k, from scratch
Repaint(gg, p, k) ==
  LET reg == RegionOf(gg, p)
  IN [c \in 0..(gg.cols - 1) |-> [r \in 0..(gg.rows - 1) |->
        IF [r |-> r, c |-> c] \in reg THEN k ELSE gg.grid[c][r]]]

\* exhaustive backward search over the boards of one shape with colors below
\* k, taken up to renaming of colors: layer i + 1 holds the boards that
\* need exactly i paint operations (any region, any color below k) to
\* become one region
PaintLayers(vs, cols, k) ==
  LET rows == 2 * vs + 1
      G(g) == [rows |-> rows, cols |-> cols, grid |-> g]
      Boards == {Canon(G(g)) : g \in [0..(cols - 1) -> [0..(rows - 1) -> 0..(k - 1)]]}
      succ(g) == {Canon(G(Repaint(G(g), p, col))) : p \in Cells(G(g)), col \in 0..(k - 1)}
      goal == {g \in Boards : Cardinality(BFSPartition(G(g))) = 1}
      RECURSIVE grow(_, _)
      grow(layers, rest) ==
        LET last == layers[Len(layers)]
            next == {g \in rest : succ(g) \cap last # {}}
        IN IF next = {} THEN layers
           ELSE grow(Append(layers, {g : g \in next}), {g : g \in rest \ next})
  IN grow(<<{g : g \in goal}>>, {g : g \in Boards \ goal})

\* the layers of every shape and colorCount of the model, computed once
PaintTable ==
  {[vs |-> s[1], cols |-> s[2], k |-> k, layers |-> PaintLayers(s[1], s[2], k)] :
     s \in Shapes, k \in 1..NumColors}

\* the layers of the shape and colorCount of gg
LayersOf(gg) ==
  (CHOOSE t \in PaintTable : /\ t.vs = gg.vside_rows /\ t.cols = gg.cols
                             /\ t.k = gg.colorCount).layers

\* some sequence of paint operations makes gg one region
Solvable(gg) == \E i \in 1..Len(LayersOf(gg)) : Canon(gg) \in LayersOf(gg)[i]

\* the true minimum number of paint operations that make a solvable gg one
\* region
TrueMin(gg) == (CHOOSE i \in 1..Len(LayersOf(gg)) : Canon(gg) \in LayersOf(gg)[i]) - 1

\* the start cell of the recorded floodFill call
CallCell == [r |-> call.r, c |-> call.c]

(***************************************************************************)
(* Properties of floodFill and the maintained union-find                   *)
(***************************************************************************)
\* C1: after every sequence of floodFill calls the maintained union-find
\* count equals the number of regions of a from-scratch partition of the
\* current color array.
C1_RegionCountMatchesBFS ==
  getRegionCount(gameGrid) = Cardinality(BFSPartition(gameGrid))

\* a fill on the 3x2 board that changed colors and left 2 regions, one of 5 cells
C1_Witness ==
  /\ call.op = "floodFill" /\ ~call.same
  /\ gameGrid.rows = 3 /\ gameGrid.cols = 2
  /\ getRegionCount(gameGrid) = 2
  /\ \E p \in Cells(gameGrid) : Cardinality(RegionOf(gameGrid, p)) = 5

\* C2: after any floodFill the incrementally updated union-find holds the
\* same partition as buildUnionFind run from scratch: adjacent cells of one
\* color share a component and no component mixes two colors.
C2_IncrementalEqualsRebuild ==
  /\ UFPartition(gameGrid, gameGrid.uf) = UFPartition(gameGrid, buildUnionFind(gameGrid))
  /\ \A p, q \in Cells(gameGrid) :
       /\ (Adjacent(gameGrid, p, q) /\ ColorOf(gameGrid, p) = ColorOf(gameGrid, q))
            => find(gameGrid.uf, p.r * gameGrid.cols + p.c)
               = find(gameGrid.uf, q.r * gameGrid.cols + q.c)
       /\ find(gameGrid.uf, p.r * gameGrid.cols + p.c)
            = find(gameGrid.uf, q.r * gameGrid.cols + q.c)
            => ColorOf(gameGrid, p) = ColorOf(gameGrid, q)

\* a fill that changed colors and left three regions, one of them of three cells
C2_Witness ==
  /\ call.op = "floodFill" /\ ~call.same
  /\ Cardinality(UFPartition(gameGrid, gameGrid.uf)) = 3
  /\ \E S \in UFPartition(gameGrid, gameGrid.uf) : Cardinality(S) = 3

\* C3: a floodFill to a color other than the start cell's recolors exactly
\* the cells of the start cell's region before the call and leaves every
\* other cell's color unchanged.
C3_FillsExactlyTheRegion ==
  (call.op = "floodFill" /\ ColorOf(call.before, CallCell) # call.color) =>
    \A p \in Cells(gameGrid) :
      ColorOf(gameGrid, p) = IF p \in RegionOf(call.before, CallCell) THEN call.color
                             ELSE ColorOf(call.before, p)

\* a fill of a three-cell region next to cells of the old color that are
\* not connected to it
C3_Witness ==
  /\ call.op = "floodFill" /\ ColorOf(call.before, CallCell) # call.color
  /\ Cardinality(RegionOf(call.before, CallCell)) = 3
  /\ \E p \in Cells(gameGrid) : /\ p \notin RegionOf(call.before, CallCell)
                                /\ ColorOf(call.before, p) = ColorOf(call.before, CallCell)
                                /\ ColorOf(gameGrid, p) = ColorOf(call.before, p)

\* C4: a floodFill to the color the start cell already has changes neither
\* the color array nor the union-find partition nor the region count.
C4_SameColorIsNoOp ==
  (call.op = "floodFill" /\ ColorOf(call.before, CallCell) = call.color) =>
    /\ gameGrid.grid = call.before.grid
    /\ UFPartition(gameGrid, gameGrid.uf) = UFPartition(call.before, call.before.uf)
    /\ getRegionCount(gameGrid) = getRegionCount(call.before)

\* a same-color fill on a board of several regions whose start cell has a
\* neighbour of another color
C4_Witness ==
  /\ call.op = "floodFill" /\ ColorOf(call.before, CallCell) = call.color
  /\ getRegionCount(gameGrid) >= 3
  /\ \E q \in Cells(gameGrid) : /\ Adjacent(gameGrid, CallCell, q)
                                /\ ColorOf(gameGrid, q) # call.color

(***************************************************************************)
(* Properties of the GraphSolver                                           *)
(***************************************************************************)
\* the colors that appear on the board
ColorsOnBoard(gg) == {ColorOf(gg, p) : p \in Cells(gg)}

\* C5: whenever the board can be made one region within maxDepthLimit paint
\* operations (any region to any color below colorCount), solve returns a
\* solution whose step count is the true minimum number of paint operations.
C5_SolverOptimal ==
  (result.called /\ Solvable(gameGrid) /\ TrueMin(gameGrid) <= result.maxDepthLimit) =>
    /\ result.value.found
    /\ result.value.steps = TrueMin(gameGrid)

\* a board of five regions in four colors whose minimum is 3, solved in 3 steps
C5_Witness ==
  /\ result.called /\ result.value.found
  /\ Cardinality(ColorsOnBoard(gameGrid)) = 4
  /\ Cardinality(BFSPartition(gameGrid)) = 5
  /\ Solvable(gameGrid) /\ TrueMin(gameGrid) = 3
  /\ result.value.steps = 3

\* C6: solve returns null exactly when no sequence of at most maxDepthLimit
\* moves makes the board one region; a returned solution has at most
\* maxDepthLimit steps and as many steps as its path is long.
C6_NullIffNoSolution ==
  result.called =>
    /\ ~result.value.found
         <=> (~Solvable(gameGrid) \/ TrueMin(gameGrid) > result.maxDepthLimit)
    /\ result.value.found =>
         /\ result.value.steps <= result.maxDepthLimit
         /\ result.value.steps = Len(result.value.path)

\* solve(1) returns null on a connected board that needs two moves
C6_Witness ==
  /\ result.called /\ ~result.value.found
  /\ result.maxDepthLimit = 1
  /\ Solvable(gameGrid) /\ TrueMin(gameGrid) = 2

\* C7: the heuristic of a graph never exceeds the number of moves of any
\* sequence of solver moves that takes that graph to a single node (walk.h is
\* the heuristic of the graph walk.depth moves back), so depth + h <= limit
\* holds along every branch that reaches a single node within limit.
C7_HeuristicAdmissible ==
  (walk.walking /\ MapSize(walk.nodes) = 1) => walk.h <= walk.depth

\* a graph of heuristic 2 taken to a single node by three moves
C7_Witness ==
  /\ walk.walking /\ MapSize(walk.nodes) = 1
  /\ walk.h = 2 /\ walk.depth = 3

\* C8: on a board of one region solve returns the zero-step solution and no
\* region graph has been constructed.
C8_ZeroStepsWithoutGraph ==
  (result.called /\ getRegionCount(gameGrid) = 1) =>
    /\ result.value = [found |-> TRUE, steps |-> 0, path |-> <<>>]
    /\ ~solver.built

\* the 1-column, 3-row board [A, B, A] with 2 colors
IsABA(gg) ==
  /\ gg.rows = 3 /\ gg.cols = 1 /\ gg.colorCount = 2
  /\ gg.grid[0][0] = gg.grid[0][2]
  /\ gg.grid[0][1] # gg.grid[0][0]

\* a color table of two entries
TwoColors == <<"#FF6B6B", "#4ECDC4">>

\* C9: on the board [A, B, A] solve with maxDepthLimit >= 1 returns exactly
\* one step, which recolors the region of cell (r = 1, c = 0) to color A.
C9_ABASolvedInOneStep ==
  (result.called /\ result.maxDepthLimit >= 1 /\ IsABA(gameGrid)) =>
    /\ result.value.found
    /\ toSolution(solver, result.value.path, TwoColors)
         = [steps |-> 1,
            path |-> <<[region |-> [r |-> 1, c |-> 0],
                        color |-> TwoColors[gameGrid.grid[0][0] + 1]]>>]

\* the board [1, 0, 1] solved with the store's depth limit
C9_Witness ==
  /\ result.called /\ result.maxDepthLimit = StoreMaxDepth /\ IsABA(gameGrid)
  /\ gameGrid.grid[0][0] = 1
  /\ result.value.steps = 1

\* the sum of the node sizes of a graph
SumOfSizes(nodes) == FoldLeft(LAMBDA a, id : a + nodes.at[id].size, 0, nodes.ids)

\* C10: the graph built from a grid has as many nodes as the grid's
\* getRegionCount(), node sizes that sum to rows * cols, and in every node the
\* color of its representative cell.
C10_GraphMatchesGrid ==
  solver.built =>
    /\ MapSize(solver.nodes) = getRegionCount(gameGrid)
    /\ SumOfSizes(solver.nodes) = gameGrid.rows * gameGrid.cols
    /\ DOMAIN solver.idToCoord.at = DOMAIN solver.nodes.at
    /\ \A id \in DOMAIN solver.nodes.at :
         solver.nodes.at[id].color = ColorOf(gameGrid, solver.idToCoord.at[id])

\* a graph of three nodes, one of them a region of three cells
C10_Witness ==
  /\ solver.built
  /\ MapSize(solver.nodes) = 3
  /\ getRegionCount(gameGrid) = 3
  /\ \E id \in DOMAIN solver.nodes.at : solver.nodes.at[id].size = 3

(***************************************************************************)
(* Properties of the queries, snapshots and copies of a GameGrid           *)
(***************************************************************************)
\* C11: getRegionCells(r, c) returns, without duplicates and without changing
\* the grid, exactly the cells of the maximal same-color connected region of
\* (r, c): the result is non-empty, contains (r, c), and equals the
\* from-scratch region.
C11_RegionCellsExact ==
  call.op = "getRegionCells" =>
    /\ Len(call.value) >= 1
    /\ CallCell \in Range(call.value)
    /\ Cardinality(Range(call.value)) = Len(call.value)
    /\ Range(call.value) = RegionOf(call.before, CallCell)
    /\ gameGrid = call.before

\* a query that returned a region of three cells on a board that has another
\* cell of the same color outside the region
C11_Witness ==
  /\ call.op = "getRegionCells"
  /\ Len(call.value) = 3
  /\ \E p \in Cells(gameGrid) : /\ p \notin Range(call.value)
                                /\ ColorOf(gameGrid, p) = ColorOf(gameGrid, CallCell)

\* C12: for a grid reached by construction and floodFill calls,
\* fromJSON(toJSON(g)) has the rows, cols, colorCount and color array of g
\* and the same getRegionCount().
C12_RoundTrip ==
  call.op = "roundTrip" =>
    /\ call.value.rows = gameGrid.rows
    /\ call.value.cols = gameGrid.cols
    /\ call.value.colorCount = gameGrid.colorCount
    /\ call.value.grid = gameGrid.grid
    /\ getRegionCount(call.value) = getRegionCount(gameGrid)

\* the round trip of a painted 3x2 board of three regions and four colors
C12_Witness ==
  /\ call.op = "roundTrip" /\ call.after = "floodFill"
  /\ gameGrid.rows = 3 /\ gameGrid.cols = 2 /\ gameGrid.colorCount = 4
  /\ getRegionCount(call.value) = 3

\* C13: at the moment of cloning the clone has the colors and region count of
\* its original; floodFill calls on the clone alone leave the original's
\* color array and region count as they were, and floodFill calls on the
\* original alone leave the clone's as they were.
C13_CloneIndependent ==
  call.op = "clone" =>
    /\ call.atClone.copy.grid = call.atClone.original.grid
    /\ getRegionCount(call.atClone.copy) = getRegionCount(call.atClone.original)
    /\ call.onOriginal = 0 =>
         /\ gameGrid.grid = call.atClone.original.grid
         /\ getRegionCount(gameGrid) = getRegionCount(call.atClone.original)
    /\ call.onCopy = 0 =>
         /\ call.copy.grid = call.atClone.copy.grid
         /\ getRegionCount(call.copy) = getRegionCount(call.atClone.copy)

\* a paint operation on the clone of a board of at least three regions changed
\* the clone's colors and region count
C13_Witness ==
  /\ call.op = "clone" /\ call.onCopy = 1 /\ call.onOriginal = 0
  /\ call.copy.grid # gameGrid.grid
  /\ getRegionCount(call.copy) < getRegionCount(gameGrid)
  /\ getRegionCount(gameGrid) >= 3

\* C14: toSolution(movePath, colorTable) returns steps = the length of
\* movePath and a path of the same length and order, each step with the
\* coordinate recorded for its region id when the graph was built and the
\* color colorTable[colorIndex], or colorTable[0] when colorIndex is out of
\* range.
C14_ToSolution ==
  call.op = "toSolution" =>
    /\ call.value.steps = Len(call.graphPath)
    /\ Len(call.value.path) = Len(call.graphPath)
    /\ \A i \in 1..Len(call.graphPath) :
         /\ call.value.path[i].region = solver.idToCoord.at[call.graphPath[i].regionId]
         /\ call.value.path[i].color =
              IF call.graphPath[i].color \in 0..(Len(call.colors) - 1)
              THEN call.colors[call.graphPath[i].color + 1]
              ELSE call.colors[1]

\* a path of three moves on at least two regions translated with a table of
\* two colors, one move with a color index inside the table and one outside
C14_Witness ==
  /\ call.op = "toSolution"
  /\ Len(call.graphPath) = 3 /\ Len(call.colors) = 2
  /\ Cardinality({call.value.path[i].region : i \in 1..3}) >= 2
  /\ \E i, j \in 1..3 : /\ call.graphPath[i].color = 1
                         /\ call.graphPath[j].color >= 2

\* C15: every color index stored in a grid is below the grid's colorCount,
\* after construction (fresh or from a snapshot) and after floodFill calls with
\* any integer newColor.
C15_ColorsBelowColorCount ==
  gameGrid # NoGrid =>
    \A c \in DOMAIN gameGrid.grid : \A r \in DOMAIN gameGrid.grid[c] :
      gameGrid.grid[c][r] < gameGrid.colorCount

\* C16: every grid has exactly cols columns of exactly rows entries, after
\* fresh construction, after fromJSON of a snapshot with a non-empty grid
\* array (also one whose rows field is even) and after any floodFill call,
\* also one whose start coordinate is out of bounds.
C16_ShapeInvariant ==
  gameGrid # NoGrid =>
    /\ DOMAIN gameGrid.grid = 0..(gameGrid.cols - 1)
    /\ \A c \in DOMAIN gameGrid.grid : DOMAIN gameGrid.grid[c] = 0..(gameGrid.rows - 1)

\* the queried cell lies on no border of the board
IsInterior == /\ 0 < call.r /\ call.r < gameGrid.rows - 1
              /\ 0 < call.c /\ call.c < gameGrid.cols - 1

\* how many of the three candidate neighbours of the queried cell (above,
\* below, and beside it on the side chosen by the parity of r + c) lie outside
\* the board
OutsideCandidates ==
  (IF call.r = 0 THEN 1 ELSE 0)
  + (IF call.r = gameGrid.rows - 1 THEN 1 ELSE 0)
  + (IF \/ ((call.r + call.c) % 2 = 0 /\ call.c = 0)
        \/ ((call.r + call.c) % 2 = 1 /\ call.c = gameGrid.cols - 1)
     THEN 1 ELSE 0)

\* C17 as stated: every interior cell has exactly 3 neighbours and every edge
\* cell has exactly 2, for every board size.
C17_ThreeOrTwoNeighbors ==
  call.op = "getNeighbors" =>
    Len(call.value) = IF IsInterior THEN 3 ELSE 2

\* C17 amended: every interior cell has exactly 3 neighbours, and every cell
\* has 3 minus the number of its candidate neighbours that lie outside the
\* board; the neighbours are distinct cells of the board other than the cell.
C17_NeighborCount ==
  call.op = "getNeighbors" =>
    /\ IsInterior => Len(call.value) = 3
    /\ Len(call.value) = 3 - OutsideCandidates
    /\ Cardinality(Range(call.value)) = Len(call.value)
    /\ Range(call.value) \subseteq Cells(gameGrid) \ {CallCell}

\* an edge cell of column 0 with three neighbours
C17_Witness ==
  /\ call.op = "getNeighbors"
  /\ call.c = 0 /\ call.r = 1 /\ gameGrid.rows = 3 /\ gameGrid.cols = 3
  /\ Len(call.value) = 3

\* C18: on import colorCount is colors.length when the snapshot has a colors
\* field, else its colorCount when present, else 1, clamped to at least 1, and
\* halfRows is (rows - 1) divided by 2 with integer division.
C18_ImportRule ==
  call.op = "fromJSON" =>
    /\ gameGrid.colorCount =
         Max(1, IF "colors" \in DOMAIN call.data THEN Len(call.data.colors)
                ELSE IF "colorCount" \in DOMAIN call.data THEN call.data.colorCount
                ELSE 1)
    /\ 2 * gameGrid.vside_rows \in {call.data.rows - 1, call.data.rows - 2}
    /\ gameGrid.rows = 2 * gameGrid.vside_rows + 1

\* the import of a snapshot with an even rows field, a colors field of two
\* entries and a colorCount field of 3
C18_Witness ==
  /\ call.op = "fromJSON"
  /\ call.data.rows = 4
  /\ "colors" \in DOMAIN call.data /\ "colorCount" \in DOMAIN call.data
  /\ Len(call.data.colors) = 2 /\ call.data.colorCount = 3
  /\ gameGrid.colorCount = 2 /\ gameGrid.vside_rows = 1

(***************************************************************************)
(* Properties of the persisted edit state                                  *)
(***************************************************************************)
\* the last operation ran loadEditStateOrInit
RanLoadOrInit == call.op \in {"loadEditStateOrInit", "setMode"}

\* the stored text is absent, unparsable, or a snapshot whose grid array is
\* missing or empty
IsRejected(raw) ==
  \/ raw.kind \in {"absent", "text"}
  \/ /\ raw.kind = "json"
     /\ \/ ~IsObject(raw.value)
        \/ "grid" \notin DOMAIN raw.value
        \/ DOMAIN raw.value.grid = {}

\* the board and palette of a fresh initialization
IsFreshlyInitialized ==
  /\ gameGrid.rows = 2 * VSIDE_ROWS + 1 /\ gameGrid.cols = COLS
  /\ gameGrid.colorCount = Len(DEFAULT_COLORS)
  /\ DOMAIN gameGrid.grid = 0..(COLS - 1)
  /\ \A c \in 0..(COLS - 1) :
       /\ DOMAIN gameGrid.grid[c] = 0..(2 * VSIDE_ROWS)
       /\ \A r \in 0..(2 * VSIDE_ROWS) : gameGrid.grid[c][r] = 0
  /\ store.paletteColors = DEFAULT_COLORS

\* C19: a persisted snapshot that is absent, unparsable, or has a missing or
\* empty grid array is rejected: loadEditState returns null and changes
\* neither the palette nor the current grid, loadEditStateOrInit then falls
\* back to a freshly initialized all-zero grid with the default palette, and
\* no exception escapes.
C19_MalformedSnapshotRejected ==
  (RanLoadOrInit /\ IsRejected(call.before.storage)) =>
    /\ ~call.threw
    /\ ~call.loaded
    /\ call.afterLoad.paletteColors = call.before.paletteColors
    /\ call.afterLoad.gameGrid = call.before.gameGrid
    /\ IsFreshlyInitialized

\* a text that is not JSON was found while an edited two-color board was
\* shown, and the fresh board replaced it
C19_Witness ==
  /\ call.op = "loadEditStateOrInit"
  /\ call.before.storage = NotJSON("{")
  /\ call.before.gameGrid # NoGrid
  /\ call.before.gameGrid.colorCount = 2
  /\ IsFreshlyInitialized

\* the fields of the last saved snapshot
SavedSnapshot == JSONparse(store.storage).value

\* the last operation wrote the snapshot of the current grid to localStorage
Saved ==
  \/ call.op \in {"initGrid", "setGameGrid"} /\ call.saved
  \/ RanLoadOrInit /\ store.storage # call.before.storage

ExportFields == {"rows", "cols", "colorCount", "grid"}

\* C20 as stated: export always emits rows, cols, colorCount and grid and
\* never a colors field, both in the output of toJSON and in the snapshot
\* persisted by saveEditState.
C20_NeverEmitsColors ==
  Saved =>
    /\ ExportFields \subseteq DOMAIN toJSON(gameGrid)
    /\ "colors" \notin DOMAIN toJSON(gameGrid)
    /\ ExportFields \subseteq DOMAIN SavedSnapshot
    /\ "colors" \notin DOMAIN SavedSnapshot

\* C20 amended: toJSON emits exactly rows, cols, colorCount and grid and no
\* colors field; the snapshot persisted by saveEditState holds these four
\* fields of the current grid and a fifth field colors with the palette.
C20_ExportFields ==
  Saved =>
    /\ DOMAIN toJSON(gameGrid) = ExportFields
    /\ DOMAIN SavedSnapshot = ExportFields \cup {"colors"}
    /\ \A f \in ExportFields : SavedSnapshot[f] = toJSON(gameGrid)[f]
    /\ SavedSnapshot.rows = gameGrid.rows /\ SavedSnapshot.grid = gameGrid.grid
    /\ SavedSnapshot.colors = store.paletteColors

\* an edited one-cell board was saved together with the default palette
C20_Witness ==
  /\ call.op = "setGameGrid"
  /\ Saved
  /\ gameGrid.rows = 1 /\ gameGrid.grid[0][0] = 1
  /\ SavedSnapshot.colors = DEFAULT_COLORS

(***************************************************************************)
(* Properties of reads, of the region graph and of the search              *)
(***************************************************************************)
\* C21: getColorIndex(r, c) returns the stored color index for every
\* in-bounds coordinate and returns 0 for every coordinate where r or c is
\* outside the board (negative or too large).
C21_ReadDefaultsToZero ==
  call.op = "getColorIndex" =>
    IF InBounds(gameGrid, CallCell)
    THEN call.value = gameGrid.grid[call.c][call.r]
    ELSE call.value = 0

\* C22: in the initial region graph and in every graph produced by applyMove
\* along any search path, the neighbor relation is symmetric, no node lists
\* itself, every neighbor id refers to a node still present in the graph, and
\* any two neighboring nodes have different colors.
C22_GraphWellFormed ==
  walk.walking =>
    \A id \in DOMAIN walk.nodes.at :
      LET node == walk.nodes.at[id]
      IN /\ id \notin Range(node.neighbors)
         /\ \A nId \in Range(node.neighbors) :
              /\ MapHas(walk.nodes, nId)
              /\ id \in Range(walk.nodes.at[nId].neighbors)
              /\ walk.nodes.at[nId].color # node.color

\* one move on a graph of five nodes absorbed two of them, and a node next to
\* an absorbed one is left with two neighbors
C22_Witness ==
  /\ walk.walking /\ walk.depth = 1
  /\ MapSize(solver.nodes) = 5 /\ MapSize(walk.nodes) = 3
  /\ \E id \in DOMAIN walk.nodes.at : Len(walk.nodes.at[id].neighbors) = 2

\* C23: applyMove never mutates the graph it is given: after
\* applyMove(nodes, id, color) returns, nodes has the same node ids, colors,
\* sizes and neighbor sets as before the call, so the sibling moves of the
\* loop start from the pre-move graph and the solver's initial graph is
\* unchanged by the search.
C23_ApplyMoveLeavesInput ==
  call.op = "applyMove" =>
    /\ walk.nodes.ids = call.before.ids
    /\ \A id \in DOMAIN call.before.at :
         /\ walk.nodes.at[id].color = call.before.at[id].color
         /\ walk.nodes.at[id].size = call.before.at[id].size
         /\ walk.nodes.at[id].neighbors = call.before.at[id].neighbors
    /\ getPossibleMoves(walk.nodes) = getPossibleMoves(call.before)
    /\ walk.depth = 0 => solver.nodes = buildGraph(gameGrid).nodes

\* a move on the solver's own graph absorbed a node whose other neighbor was
\* handed over to the recolored node
C23_Witness ==
  /\ call.op = "applyMove" /\ walk.depth = 0
  /\ MapSize(call.value) = MapSize(call.before) - 1
  /\ MapSize(call.value) >= 2
  /\ Len(call.value.at[call.targetId].neighbors) >= 2

\* the neighbors of A that have color X in the graph given to the move (A, X)
Absorbed ==
  {nId \in Range(call.before.at[call.targetId].neighbors) :
     MapHas(call.before, nId) /\ call.before.at[nId].color = call.newColor}

\* the sum of the sizes of the nodes ids of a graph
SizeOfNodes(nodes, ids) ==
  FoldLeft(LAMBDA a, id : IF id \in ids THEN a + nodes.at[id].size ELSE a, 0, nodes.ids)

\* C24: applying move (A, X) yields a graph in which A has color X, exactly
\* the nodes that were neighbors of A with color X are removed, A's size is
\* its old size plus the sizes of the removed nodes, A's neighbor set is the
\* union of its old neighbors and the removed nodes' neighbors minus A and the
\* removed nodes, every other node that pointed to a removed node now points
\* to A, and all remaining nodes keep their color and size.
C24_ApplyMoveAbsorbs ==
  call.op = "applyMove" =>
    LET A == call.targetId
        old == call.before
        new == call.value
        neighborsOf(nodes, id) == Range(nodes.at[id].neighbors)
    IN /\ new.at[A].color = call.newColor
       /\ DOMAIN new.at = (DOMAIN old.at) \ Absorbed
       /\ Range(new.ids) = DOMAIN new.at /\ Len(new.ids) = Cardinality(DOMAIN new.at)
       /\ new.at[A].size = old.at[A].size + SizeOfNodes(old, Absorbed)
       /\ neighborsOf(new, A) =
            (neighborsOf(old, A) \cup UNION {neighborsOf(old, m) : m \in Absorbed})
            \ ({A} \cup Absorbed)
       /\ \A id \in (DOMAIN new.at) \ {A} :
            /\ new.at[id].color = old.at[id].color
            /\ new.at[id].size = old.at[id].size
            /\ neighborsOf(new, id) =
                 (neighborsOf(old, id) \ Absorbed)
                 \cup (IF neighborsOf(old, id) \cap Absorbed # {} THEN {A} ELSE {})

\* a move absorbed two nodes, and a node that pointed to one of them but not
\* to A points to A afterwards
C24_Witness ==
  /\ call.op = "applyMove"
  /\ Cardinality(Absorbed) = 2
  /\ \E id \in DOMAIN call.value.at :
       /\ id # call.targetId
       /\ call.targetId \notin Range(call.before.at[id].neighbors)
       /\ call.targetId \in Range(call.value.at[id].neighbors)

\* C25: replay soundness.  For every board on which solve returns a solution,
\* applying the solution's moves in order to a clone of the board with
\* floodFill(representative coordinate of the move's region id, move's color
\* index) leaves the clone with region count 1 after the last move and with
\* region count greater than 1 after every earlier move; each move's
\* representative coordinate still lies inside the region the move recolors:
\* the cells recolored are those of the move's graph node, in its color and
\* its size, and contain the region the coordinate was taken from.
C25_ReplaySound ==
  call.op = "replay" =>
    /\ getRegionCount(call.board) = 1 <=> call.step = result.value.steps
    /\ getRegionCount(call.board) = MapSize(call.graph)
    /\ call.step > 0 =>
         /\ call.coord \in Range(call.region)
         /\ Len(call.region) = call.node.size
         /\ call.regionColor = call.node.color
         /\ RegionOf(gameGrid, call.coord) \subseteq Range(call.region)
         /\ \A p \in Range(call.region) :
              ColorOf(call.board, p) = result.value.path[call.step].color

\* the second move of a solution is played on a region that has grown beyond
\* the region its coordinate was taken from, and the board is not yet solved
C25_Witness ==
  /\ call.op = "replay" /\ call.step = 2
  /\ result.value.steps >= 3
  /\ Len(call.region) > Cardinality(RegionOf(gameGrid, call.coord))

\* the regions of color newColor that touch the region filled by the call
AdjacentRegionsOfNewColor ==
  LET filled == RegionOf(call.before, CallCell)
  IN {RegionOf(call.before, q) :
        q \in {x \in Cells(call.before) :
                 /\ ColorOf(call.before, x) = call.color
                 /\ \E p \in filled : Adjacent(call.before, p, x)}}

\* C26: the region count never increases across a floodFill call: after
\* floodFill(r, c, newColor) with newColor different from the start cell's
\* color, getRegionCount() equals the count before the call minus the number
\* of distinct regions of color newColor that were adjacent to the filled
\* region.
C26_CountDropsByAdjacentRegions ==
  (call.op = "floodFill" /\ ColorOf(call.before, CallCell) # call.color) =>
    /\ getRegionCount(gameGrid) <= getRegionCount(call.before)
    /\ getRegionCount(gameGrid) =
         getRegionCount(call.before) - Cardinality(AdjacentRegionsOfNewColor)

\* a fill that joined two separate regions of the new color
C26_Witness ==
  /\ call.op = "floodFill" /\ ColorOf(call.before, CallCell) # call.color
  /\ Cardinality(AdjacentRegionsOfNewColor) = 2
  /\ getRegionCount(gameGrid) = getRegionCount(call.before) - 2
  /\ getRegionCount(gameGrid) >= 2

\* the call of dfs at the end of a search path: it returns without a
\* recursive call
SearchPathEnded ==
  /\ walk.walking
  /\ \/ ~dfsExpands(walk.nodes, walk.depth, walk.limit)
     \/ Len(getPossibleMoves(walk.nodes)) = 0

\* every move offered on the current graph targets a color other than the
\* region's own and has a neighbor of that color to absorb
MovesAbsorb ==
  walk.walking =>
  \A i \in 1..Len(getPossibleMoves(walk.nodes)) :
    LET move == getPossibleMoves(walk.nodes)[i]
        node == walk.nodes.at[move.regionId]
    IN /\ move.targetColor # node.color
       /\ \E nId \in Range(node.neighbors) :
            MapHas(walk.nodes, nId) /\ walk.nodes.at[nId].color = move.targetColor

\* C27: solve terminates for every board and every maxDepth: every move
\* produced by getPossibleMoves targets a color different from the region's
\* own and absorbs at least one neighbor, so each applied move strictly
\* decreases the number of graph nodes, no search path is longer than
\* min(limit, initial node count - 1), and every search path makes only
\* finitely many recursive calls.
C27_SearchTerminates ==
  /\ [](MovesAbsorb /\ (walk.walking =>
                          walk.depth <= Min(walk.limit, MapSize(solver.nodes) - 1)))
  /\ [][walk.walking => MapSize(walk'.nodes) < MapSize(walk.nodes)]_walk
  /\ <>[][~DfsStep]_vars

\* a search path of three moves that used up the node count under the store's
\* depth cap
C27_Witness ==
  /\ SearchPathEnded /\ walk.limit = StoreMaxDepth
  /\ walk.depth = 3 /\ MapSize(solver.nodes) = 4 /\ MapSize(walk.nodes) = 1

\* the board is in a single color
SingleColor == Cardinality(ColorsOnBoard(gameGrid)) = 1

\* C29 as stated: every freshly constructed board and every board painted in
\* a single color is one region, boards of a single row included.
C29_MeshConnected == SingleColor => getRegionCount(gameGrid) = 1

\* C29: the adjacency mesh is connected for every board size with at least
\* one cell that has more than one row (halfRows >= 1) or a single column: a
\* freshly constructed grid, and any board painted in a single color, then
\* has getRegionCount() equal to 1. A single-row board (halfRows = 0) of cols
\* columns falls into 1 + cols \div 2 regions.
C29_MeshConnectedUnlessSingleRow ==
  SingleColor =>
    /\ (gameGrid.vside_rows >= 1 \/ gameGrid.cols = 1) =>
         getRegionCount(gameGrid) = 1
    /\ gameGrid.vside_rows = 0 =>
         getRegionCount(gameGrid) = 1 + gameGrid.cols \div 2

\* a board of five rows and four columns painted in color 2 is one region
C29_Witness ==
  /\ gameGrid.vside_rows = 2 /\ gameGrid.cols = 4
  /\ ColorsOnBoard(gameGrid) = {2}
  /\ getRegionCount(gameGrid) = 1

\* C30: the adjacency relation of getNeighbors is symmetric and irreflexive
\* and stays in bounds: for all in-bounds cells p and q, q is a neighbor of p
\* exactly if p is a neighbor of q, no cell is its own neighbor, and every
\* neighbor returned for an in-bounds cell is in bounds.
C30_AdjacencySymmetric ==
  /\ \A p, q \in Cells(gameGrid) : Adjacent(gameGrid, p, q) <=> Adjacent(gameGrid, q, p)
  /\ \A p \in Cells(gameGrid) :
       /\ ~Adjacent(gameGrid, p, p)
       /\ \A n \in Range(getNeighbors(gameGrid, p.r, p.c)) : InBounds(gameGrid, n)
  /\ call.op = "getNeighbors" =>
       \A n \in Range(call.value) :
         /\ InBounds(gameGrid, n)
         /\ n # [r |-> call.r, c |-> call.c]
         /\ Adjacent(gameGrid, n, [r |-> call.r, c |-> call.c])

\* getNeighbors of an interior cell returned its right-hand neighbor, which
\* has the cell as its left-hand neighbor
C30_Witness ==
  /\ call.op = "getNeighbors" /\ call.r = 1 /\ call.c = 2
  /\ gameGrid.rows = 5 /\ gameGrid.cols = 5
  /\ [r |-> 1, c |-> 3] \in Range(call.value)
  /\ Adjacent(gameGrid, [r |-> 1, c |-> 3], [r |-> 1, c |-> 2])

\* solve was called with maxDepth >= N - 1 on a board of N regions
SolvedWithEnoughDepth ==
  /\ result.called
  /\ result.maxDepthLimit >= Cardinality(BFSPartition(gameGrid)) - 1

\* the returned solution is as C28 describes it
SolutionWithinBounds ==
  /\ result.value.found
  /\ result.value.steps >= Cardinality(ColorsOnBoard(gameGrid)) - 1
  /\ result.value.steps <= Cardinality(BFSPartition(gameGrid)) - 1

\* C28 as stated: for every board with at least one cell and N regions,
\* solve(maxDepth) with maxDepth >= N - 1 returns a solution of at least
\* (number of colors on the board - 1) and at most N - 1 steps.
C28_SolvedWithinNMinusOne == SolvedWithEnoughDepth => SolutionWithinBounds

\* C28: for every board with at least one cell and N regions that has more
\* than one row (halfRows >= 1) or a single column, solve(maxDepth) with
\* maxDepth >= N - 1 returns a non-null solution of at least (number of
\* distinct colors on the board - 1) and at most N - 1 steps; on a single-row
\* board with two or more columns solve returns null for every maxDepth.
C28_SolvedWithinNMinusOneOnConnectedMesh ==
  /\ (SolvedWithEnoughDepth /\ (gameGrid.vside_rows >= 1 \/ gameGrid.cols = 1)) =>
       SolutionWithinBounds
  /\ (result.called /\ gameGrid.vside_rows = 0 /\ gameGrid.cols >= 2) =>
       ~result.value.found

\* a board of three rows and two columns with six regions in three colors,
\* solved with maxDepth 15 in no more than five steps
C28_Witness ==
  /\ SolvedWithEnoughDepth /\ SolutionWithinBounds
  /\ gameGrid.vside_rows = 1 /\ gameGrid.cols = 2
  /\ Cardinality(BFSPartition(gameGrid)) = 6
  /\ Cardinality(ColorsOnBoard(gameGrid)) = 3
  /\ result.maxDepthLimit = StoreMaxDepth

\* C33: in every store state with a grid that is reached through
\* loadEditStateOrInit, initGrid, addColor, removeColor and setMode from a
\* persisted snapshot, paletteColors.length equals gameGrid.colorCount, the
\* palette has at least one color, selectedColorIndex is a palette index and
\* every color index on the grid is below paletteColors.length.
C33_PaletteMatchesGrid ==
  gameGrid # NoGrid =>
    /\ Len(store.paletteColors) = gameGrid.colorCount
    /\ Len(store.paletteColors) >= 1
    /\ store.selectedColorIndex \in 0..(Len(store.paletteColors) - 1)
    /\ \A c \in DOMAIN gameGrid.grid : \A r \in DOMAIN gameGrid.grid[c] :
         gameGrid.grid[c][r] < Len(store.paletteColors)


\* C31: when a solve task has stored its result, the board it solved has the
\* contents of the snapshot in initialGameGridForSolution, whatever happened
\* between the solvePuzzle call and the task (floodFill on the board,
\* setGameGrid, another solvePuzzle), so the region that selectStep looks up
\* in the snapshot for a step is the region of the solved board at that
\* coordinate.
C31_SolvedBoardIsSnapshot ==
  (call.op = "solveTask" /\ ~call.threw /\ store.initialGameGridForSolution # NoGrid) =>
    /\ call.grid.grid = store.initialGameGridForSolution.grid
    /\ store.solution # NoSolution =>
         \A i \in DOMAIN store.solution.path :
           LET region == store.solution.path[i].region
           IN Range(getRegionCells(store.initialGameGridForSolution, region.r, region.c))
                = Range(getRegionCells(call.grid, region.r, region.c))

\* C32: solving is true while a solve task waits to run, and false once the
\* last waiting task has run, whether it stored a solution, stored null or
\* threw.
C32_SolvingWhilePending ==
  /\ store.timeouts # <<>> => store.solving
  /\ (call.op = "solveTask" /\ store.timeouts = <<>>) => ~store.solving


\* C34: at most one interval of the blink timer is live, and isBlinking is
\* true exactly when one is; the live interval is the one blinkTimer names
\* and has ticked fewer than 5 times; the 5th tick of an interval cancels it
\* and leaves highlightCells empty, isBlinking false and selectedStepIndex
\* null; after cleanup, initGrid, loadEditStateOrInit or solvePuzzle no
\* interval is left to tick.
C34_OneBlinkTimer ==
  /\ Cardinality(store.intervals) <= 1
  /\ store.isBlinking <=> store.intervals # {}
  /\ \A t \in store.intervals :
       t.id = store.blinkTimer /\ t.blinkCount - 1 \in 0..4
  /\ (call.op = "tick" /\ call.blinkCount - 1 = 5) =>
       /\ store.intervals = {}
       /\ store.blinkTimer = NullTimer
       /\ store.highlightCells = <<>>
       /\ ~store.isBlinking
       /\ store.selectedStepIndex = NullIndex
  /\ call.op \in {"cleanup", "initGrid", "loadEditStateOrInit", "solvePuzzle"} =>
       store.intervals = {}

\* the 5th tick of a blink timer has just run
C34_Witness == call.op = "tick" /\ call.blinkCount - 1 = 5

====
